---- MODULE Spec2Model ----
(***************************************************************************)
(* Model of the search indexer of the file viewer                          *)
(* (src/utils/search_indexer.py): the inverted index SearchIndex, the      *)
(* JSON cache and the indexing run of SearchIndexer.                       *)
(*                                                                         *)
(* Text is a sequence of one-character strings, so that tokenizing,        *)
(* lower-casing, substring matching and path normalisation are computed    *)
(* as the code computes them.                                              *)
(***************************************************************************)
EXTENDS Integers, Sequences, FiniteSets, TLC

VARIABLES
    index,          \* SearchIndex.index: token -> set of paths (a dict: only present keys)
    file_info,      \* SearchIndex.file_info: path -> entry
    last,           \* history: the last SearchIndex call and the state before it
    result,         \* history: the list returned by the last search call
    clock,          \* datetime.now(), a logical clock
    lock,           \* SearchIndex.lock, an RLock: its owner and its hold count
    thr,            \* the threads calling the SearchIndex: position and arguments
    lin,            \* history: the index after the calls so far, each applied
                    \* whole at the moment it took the lock
    platform,       \* "nt" or "posix": decides os.path.normcase
    fs,             \* the files of the directory: path -> existence, mtime, text
    cache,          \* the file <directory>/.file_index.json
    indexed_paths,  \* SearchIndexer.indexed_paths
    stop_indexing,  \* SearchIndexer.stop_indexing
    cache_directory,\* SearchIndexer.cache_directory (<<>> is None)
    run,            \* the index_directory call in progress, and the last one
    env_ops,        \* history: number of events from outside index_directory
    widget,         \* SearchWidget: current_directory, index_button, indexing_worker
    auth            \* AuthenticationManager: the session, and the expiry table of config

vars == <<index, file_info, last, result, clock, lock, thr, lin,
          platform, fs, cache, indexed_paths, stop_indexing, cache_directory, run, env_ops,
          widget, auth>>

indexVars == <<index, file_info>>
histVars == <<last, result>>
concVars == <<lock, thr, lin>>
runVars == <<platform, fs, cache, indexed_paths, stop_indexing, cache_directory, run, env_ops>>
appVars == <<widget, auth>>

(***************************************************************************)
(* Characters and strings                                                  *)
(***************************************************************************)

\* the part of [a-zA-Z0-9] the model's texts use (re pattern of _tokenize)
LowerLetters == {"a", "b", "c", "d", "m", "s", "x", "l", "z"}
UpperLetters == {"A", "B", "D", "S"}
WordChars == LowerLetters \cup UpperLetters
Whitespace == {" "}

\* str.lower() on one character
LowerChar(c) ==
    CASE c = "A" -> "a"
      [] c = "B" -> "b"
      [] c = "D" -> "d"
      [] c = "S" -> "s"
      [] OTHER -> c

\* str.lower()
Lower(s) == [i \in 1..Len(s) |-> LowerChar(s[i])]

\* re.sub(r'[^...a-zA-Z0-9\s]', ' ', text.lower())
CleanText(s) ==
    [i \in 1..Len(s) |->
        IF LowerChar(s[i]) \in WordChars \cup Whitespace THEN LowerChar(s[i]) ELSE " "]

\* str.split(): the maximal runs of non-whitespace characters, in order
RECURSIVE SplitWords(_, _, _)
SplitWords(s, cur, acc) ==
    IF s = <<>>
    THEN IF cur = <<>> THEN acc ELSE Append(acc, cur)
    ELSE IF Head(s) \in Whitespace
         THEN SplitWords(Tail(s), <<>>, IF cur = <<>> THEN acc ELSE Append(acc, cur))
         ELSE SplitWords(Tail(s), Append(cur, Head(s)), acc)

\* SearchIndex._load_stop_words: the English stop words (the Korean ones are
\* written in Hangul, which the model's texts do not use)
stop_words ==
    { <<"a">>, <<"a","n">>, <<"a","n","d">>, <<"a","r","e">>, <<"a","s">>,
      <<"a","t">>, <<"b","e">>, <<"b","y">>, <<"f","o","r">>, <<"f","r","o","m">>,
      <<"h","a","s">>, <<"h","e">>, <<"i","n">>, <<"i","s">>, <<"i","t">>,
      <<"i","t","s">>, <<"o","f">>, <<"o","n">>, <<"t","h","a","t">>, <<"t","h","e">>,
      <<"t","o">>, <<"w","a","s">>, <<"w","i","l","l">>, <<"w","i","t","h">>,
      <<"o","r">>, <<"b","u","t">>, <<"i","f">>, <<"t","h","i","s">>,
      <<"t","h","e","y">> }

\* the length floor of _tokenize
MinTokenLen == 2

\* SearchIndex._tokenize: the list of tokens of a text
TokenizeNoFloor(text) ==
    SelectSeq(SplitWords(CleanText(text), <<>>, <<>>), LAMBDA tok : tok \notin stop_words)
Tokenize(text) ==
    SelectSeq(SplitWords(CleanText(text), <<>>, <<>>),
              LAMBDA tok : Len(tok) >= MinTokenLen /\ tok \notin stop_words)

SeqToSet(s) == {s[i] : i \in 1..Len(s)}

\* str.startswith
StartsWith(s, t) == Len(t) <= Len(s) /\ SubSeq(s, 1, Len(t)) = t

\* the Python operator `t in s` on strings
IsSubstr(t, s) == \E i \in 0..(Len(s) - Len(t)) : SubSeq(s, i + 1, i + Len(t)) = t

\* index of the last "/" of a path, 0 if none
RECURSIVE LastSlash(_, _)
LastSlash(p, i) == IF i = 0 THEN 0 ELSE IF p[i] = "/" THEN i ELSE LastSlash(p, i - 1)

\* os.path.basename
Basename(p) == SubSeq(p, LastSlash(p, Len(p)) + 1, Len(p))

\* os.path.dirname
Dirname(p) == SubSeq(p, 1, LastSlash(p, Len(p)) - 1)

(***************************************************************************)
(* The files and texts of the model                                        *)
(***************************************************************************)

\* the indexed directory and three files in it, one of them in a subfolder
DirD == <<"D">>
PathA == <<"D", "/", "A", "b", ".", "m", "d">>
PathB == <<"D", "/", "b", "a", ".", "m", "d">>
PathS == <<"D", "/", "s", "/", "s", "a", ".", "m", "d">>
Paths == {PathA, PathB, PathS}

\* texts a file can hold
TextAb == <<"a", "b">>
TextSa == <<"S", "a", ".", "a", "s">>
TextAbSa == <<"a", "b", " ", "s", "a">>
Contents == {TextAb, TextSa, TextAbSa}

\* queries handed to search
QueryAbZz == <<"a", "b", " ", "z", "z">>
QueryAbBa == <<"A", "b", " ", "b", "a">>
QuerySaAb == <<"s", "a", " ", "a", "b">>
QueryS == <<"s">>
QueryMd == <<"m", "d">>
Queries == {QueryAbZz, QueryAbBa, QuerySaAb, QueryS, QueryMd}

MaxResultsValues == {1, 3, 10}

\* file_info handed to add_file by its callers (FileManager.get_file_info)
FileInfoOf(p, c) == [file_type |-> "text", file_size_mb |-> Len(c)]

(***************************************************************************)
(* SearchIndex                                                             *)
(***************************************************************************)

\* the postings of a token, empty for an absent key
Postings(idx, t) == IF t \in DOMAIN idx THEN idx[t] ELSE {}

\* remove_file that leaves a token whose last path was removed
RemoveFileIndexKeepEmpty(idx, p) == [t \in DOMAIN idx |-> idx[t] \ {p}]

\* SearchIndex.remove_file on the postings: the path leaves every postings set
\* and a token left without paths is deleted
RemoveFileIndex(idx, p) ==
    LET keep == {t \in DOMAIN idx : idx[t] \ {p} # {}}
    IN  [t \in keep |-> idx[t] \ {p}]

\* SearchIndex.remove_file on file_info
RemoveFileInfo(info, p) == [q \in (DOMAIN info) \ {p} |-> info[q]]

\* the entry add_file stores: the caller's file_info, then indexed_time,
\* content_preview and full_content (which override the caller's keys)
PreviewLen == 200

InfoEntry(c, fi, now) ==
    [file_type |-> fi.file_type,
     file_size_mb |-> fi.file_size_mb,
     indexed_time |-> now,
     content_preview |-> SubSeq(c, 1, IF Len(c) < PreviewLen THEN Len(c) ELSE PreviewLen),
     full_content |-> c]

\* the tokens add_file posts for a path: those of "<basename> <content>"
FileTokens(p, c) == SeqToSet(Tokenize(Basename(p) \o <<" ">> \o c))

\* the index add_file starts from: the one remove_file(path) leaves
AddFileBaseNoRemove(idx, p) == idx

AddFileBase(idx, p) == RemoveFileIndex(idx, p)

\* the loop `for token in set(tokens): self.index[token].add(file_path)`
InsertPostings(idx, p, toks) ==
    [t \in (DOMAIN idx) \cup toks |-> IF t \in toks THEN Postings(idx, t) \cup {p} ELSE idx[t]]

\* SearchIndex.add_file on the postings
AddFileIndex(idx, p, c) == InsertPostings(AddFileBase(idx, p), p, FileTokens(p, c))

\* SearchIndex.add_file on file_info
AddFileInfo(info, p, c, fi, now) ==
    [q \in (DOMAIN info) \cup {p} |->
        IF q = p THEN InfoEntry(c, fi, now) ELSE info[q]]

(***************************************************************************)
(* SearchIndex.search                                                      *)
(***************************************************************************)

\* the candidate set of one query token: the postings of the token itself and
\* of every indexed token that starts with it or contains it
MatchingFilesExactOnly(idx, token) == Postings(idx, token)
MatchingFiles(idx, token) ==
    Postings(idx, token) \cup
    UNION {idx[it] : it \in {k \in DOMAIN idx : StartsWith(k, token) \/ IsSubstr(token, k)}}

\* token_results: one candidate set per query token, in query order
TokenResults(idx, qtokens) == [i \in 1..Len(qtokens) |-> MatchingFiles(idx, qtokens[i])]

\* the intersection of all candidate sets
RECURSIVE AndOfFrom(_, _)
AndOfFrom(trs, i) == IF i > Len(trs) THEN trs[1] ELSE AndOfFrom(trs, i + 1) \cap trs[i]

AndResults(trs) == AndOfFrom(trs, 2)

\* token_results as it stands after the AND loop: result_files is the very set
\* object token_results[0], and `result_files &= token_result` updates that
\* object in place, so the first candidate set has become the intersection
TokenResultsAfterAnd(trs) == [trs EXCEPT ![1] = AndResults(trs)]

\* or_results: the union of token_results as the OR branch reads it
OrResults(trs) == UNION {TokenResultsAfterAnd(trs)[i] : i \in 1..Len(trs)}

\* the postings after a search that would read self.index[token] of the
\* defaultdict for a query token that is not indexed
IndexAfterUnguardedSearch(idx, query) ==
    [t \in DOMAIN idx \cup SeqToSet(Tokenize(query)) |-> Postings(idx, t)]

\* the postings after search(query): every read of self.index[token], in
\* search and in _calculate_relevance, is guarded by `token in self.index`,
\* so the defaultdict creates no entry
IndexAfterSearch(idx, query) == idx

\* the condition under which search relaxes to OR
Relaxes(andSet, max_results) == Cardinality(andSet) < max_results \div 2

\* all orders in which list(a_set) can enumerate a set
Orders(S) == {s \in [1..Cardinality(S) -> S] : \A i, j \in 1..Cardinality(S) : s[i] = s[j] => i = j}

\* list[:n]
TakeAll(s, n) == s
Take(s, n) == SubSeq(s, 1, IF Len(s) < n THEN Len(s) ELSE n)

\* scores are kept as multiples of 1/ScoreScale, the common denominator of
\* 1/frequency for the frequencies the model's files allow
ScoreScale == 6
FilenameBonus == 2 * ScoreScale

\* SearchIndex._calculate_relevance
RECURSIVE RelevanceFrom(_, _, _, _)
RelevanceFrom(idx, p, qtokens, i) ==
    IF i > Len(qtokens) THEN 0
    ELSE (IF IsSubstr(qtokens[i], Lower(Basename(p))) THEN FilenameBonus ELSE 0)
         + (IF qtokens[i] \in DOMAIN idx /\ Cardinality(idx[qtokens[i]]) > 0
            THEN ScoreScale \div Cardinality(idx[qtokens[i]]) ELSE 0)
         + RelevanceFrom(idx, p, qtokens, i + 1)

CalculateRelevance(idx, info, p, qtokens) ==
    IF p \notin DOMAIN info THEN 0 ELSE RelevanceFrom(idx, p, qtokens, 1)

\* list.sort(key=relevance_score, reverse=True): stable, descending
RECURSIVE InsertByScore(_, _)
InsertByScore(sorted, e) ==
    IF sorted = <<>> THEN <<e>>
    ELSE IF sorted[Len(sorted)].relevance_score >= e.relevance_score
         THEN Append(sorted, e)
         ELSE Append(InsertByScore(SubSeq(sorted, 1, Len(sorted) - 1), e), sorted[Len(sorted)])

RECURSIVE SortByScore(_, _)
SortByScore(list, i) ==
    IF i = 0 THEN <<>> ELSE InsertByScore(SortByScore(list, i - 1), list[i])

\* the result entries of the listed files that have a file_info entry
RECURSIVE BuildResults(_, _, _, _, _)
BuildResults(idx, info, files, qtokens, i) ==
    IF i > Len(files) THEN <<>>
    ELSE (IF files[i] \in DOMAIN info
          THEN << [file_path |-> files[i],
                   relevance_score |-> CalculateRelevance(idx, info, files[i], qtokens)] >>
          ELSE <<>>)
         \o BuildResults(idx, info, files, qtokens, i + 1)

\* result_files after the cap, one list per enumeration order of the sets
SearchFileLists(idx, qtokens, max_results) ==
    LET trs == TokenResults(idx, qtokens)
        andSet == AndResults(trs)
        orOnly == IF Relaxes(andSet, max_results) THEN OrResults(trs) \ andSet ELSE {}
    IN  {Take(ao \o oo, max_results) : ao \in Orders(andSet), oo \in Orders(orOnly)}

\* the sorted result entries of a capped file list
SearchBuild(idx, info, files, qtokens) ==
    LET built == BuildResults(idx, info, files, qtokens, 1)
    IN  SortByScore(built, Len(built))

\* the lists search can return
SearchResults(idx, info, query, max_results) ==
    LET qtokens == Tokenize(query)
    IN  IF qtokens = <<>> THEN {<<>>}
        ELSE {SearchBuild(idx, info, files, qtokens) :
                 files \in SearchFileLists(idx, qtokens, max_results)}

(***************************************************************************)
(* SearchIndexer: the directory, the cache file, load and save             *)
(***************************************************************************)

\* the files index_directory sees in this model, and the texts written to them
RunPaths == {PathA, PathS}
RunContents == {TextAb, TextSa}

\* str.endswith
EndsWith(s, suf) == Len(suf) <= Len(s) /\ SubSeq(s, Len(s) - Len(suf) + 1, Len(s)) = suf

\* supported_extensions of the handlers (pdf, image, excel, word, text); the
\* module of the powerpoint handler is not part of the source tree
PdfExtensions == {<<".", "p", "d", "f">>}
ImageExtensions ==
    {<<".", "j", "p", "g">>, <<".", "j", "p", "e", "g">>, <<".", "p", "n", "g">>,
     <<".", "g", "i", "f">>, <<".", "b", "m", "p">>, <<".", "t", "i", "f", "f">>,
     <<".", "t", "i", "f">>, <<".", "w", "e", "b", "p">>}
ExcelExtensions == {<<".", "x", "l", "s", "x">>, <<".", "x", "l", "s", "m">>}
WordExtensions == {<<".", "d", "o", "c", "x">>}
TextExtensions == {<<".", "t", "x", "t">>, <<".", "m", "d">>, <<".", "l", "o", "g">>}

\* XxxHandler.can_handle
CanHandle(exts, p) == \E e \in exts : EndsWith(Lower(p), e)

\* FileManager.get_file_type: the first handler, in priority order, that can
\* handle the path ("none" is None)
GetFileType(p) ==
    IF CanHandle(PdfExtensions, p) THEN "pdf"
    ELSE IF CanHandle(ImageExtensions, p) THEN "image"
    ELSE IF CanHandle(ExcelExtensions, p) THEN "excel"
    ELSE IF CanHandle(WordExtensions, p) THEN "word"
    ELSE IF CanHandle(TextExtensions, p) THEN "text"
    ELSE "none"

\* FileManager.is_supported_file
IsSupportedFile(p) == GetFileType(p) # "none"

\* a file is under the directory: anywhere below it for os.walk, directly in
\* it for os.listdir
UnderDirectory(p, dir, recursive) ==
    IF recursive THEN StartsWith(p, dir \o <<"/">>) ELSE Dirname(p) = dir

\* the directory scan of index_directory and load_index_from_cache: the
\* supported files that are not excel files
ScanDirectoryWithExcel(files, dir, recursive) ==
    {p \in DOMAIN files :
        files[p].exists /\ UnderDirectory(p, dir, recursive) /\ IsSupportedFile(p)}
ScanDirectory(files, dir, recursive) ==
    {p \in DOMAIN files :
        /\ files[p].exists
        /\ UnderDirectory(p, dir, recursive)
        /\ IsSupportedFile(p)
        /\ GetFileType(p) # "excel"}

\* os.path.normcase(os.path.normpath(os.path.realpath(path))) of an absolute
\* path without links: on Windows lower case and backslashes, else unchanged
NormalizePath(plat, p) ==
    IF plat = "nt"
    THEN [i \in 1..Len(p) |-> IF p[i] = "/" THEN "\\" ELSE LowerChar(p[i])]
    ELSE p

\* os.path.relpath(file_path, cache_directory): the rest of a path under
\* the directory, and "../<path>" for a path under another directory beside
\* it
RelPath(p, dir) ==
    IF StartsWith(p, dir \o <<"/">>) THEN SubSeq(p, Len(dir) + 2, Len(p))
    ELSE <<".", ".", "/">> \o p

\* SearchIndexer._get_file_hash: the digest of "<mtime>_<size>_<path>", and ""
\* (here <<>>) when os.stat fails
GetFileHash(files, p) ==
    IF p \in DOMAIN files /\ files[p].exists
    THEN <<files[p].mtime, Len(files[p].content), p>>
    ELSE <<>>

\* datetime.isoformat and datetime.fromisoformat
IsoFormat(t) == <<"iso", t>>
IsIsoFormat(x) == Len(x) = 2 /\ x[1] = "iso"
FromIsoFormat(x) == x[2]

\* the text a hand edit of the cache leaves in place of a timestamp
BadTimestamp == <<"bad", 0>>

CacheVersion == "1.0"

\* no cache file
NoCache == [exists |-> FALSE, readable |-> TRUE, index_version |-> CacheVersion,
            last_indexed |-> IsoFormat(0), total_files |-> 0, files |-> <<>>]

\* one entry of cache_data["files"]
CacheEntry(info, files, p) ==
    [content |-> info[p].full_content,
     title |-> Basename(p),
     size |-> info[p].file_size_mb,
     modified |-> IsoFormat(info[p].indexed_time),
     type |-> info[p].file_type,
     file_hash |-> GetFileHash(files, p),
     full_path |-> p]

\* SearchIndexer.save_index_to_cache: the cache file it writes
SaveIndexToCache(ip, info, files, dir, now) ==
    LET saved == ip \cap DOMAIN info
    IN  [exists |-> TRUE,
         readable |-> TRUE,
         index_version |-> CacheVersion,
         last_indexed |-> IsoFormat(now),
         total_files |-> Cardinality(ip),
         files |-> [rel \in {RelPath(p, dir) : p \in saved} |->
                       CacheEntry(info, files, CHOOSE p \in saved : RelPath(p, dir) = rel)]]

\* the file_info load_index_from_cache hands to add_file for a cached entry
RestoredFileInfo(e) == [file_type |-> e.type, file_size_mb |-> e.size]

\* the loop of load_index_from_cache over cache_data["files"], in the order of
\* the file: an entry whose file is gone is skipped, one whose hash differs is
\* queued for reindexing, one whose hash matches is restored with add_file;
\* parsing a bad timestamp of an entry to restore raises and ends the loop
RECURSIVE LoadEntries(_, _, _, _, _, _)
LoadEntries(order, i, st, cfiles, files, now) ==
    IF i > Len(order) \/ st.raised THEN st
    ELSE LET e == cfiles[order[i]]
             fp == e.full_path
         IN  IF ~(fp \in DOMAIN files /\ files[fp].exists)
             THEN LoadEntries(order, i + 1, st, cfiles, files, now)
             ELSE IF GetFileHash(files, fp) # e.file_hash
             THEN LoadEntries(order, i + 1,
                              [st EXCEPT !.reindex = Append(@, fp)], cfiles, files, now)
             ELSE IF ~IsIsoFormat(e.modified)
             THEN [st EXCEPT !.raised = TRUE]
             ELSE LoadEntries(order, i + 1,
                              [st EXCEPT !.idx = AddFileIndex(@, fp, e.content),
                                         !.info = AddFileInfo(@, fp, e.content,
                                                              RestoredFileInfo(e), now),
                                         !.ip = @ \cup {fp},
                                         !.restored = @ \cup {fp}],
                              cfiles, files, now)

\* the deleted files load_index_from_cache evicts: remove_file_from_index for
\* each normalized path that is an element of indexed_paths
RECURSIVE EvictAll(_, _)
EvictAll(st, gone) ==
    IF gone = {} THEN st
    ELSE LET g == CHOOSE x \in gone : TRUE
         IN  EvictAll([st EXCEPT !.idx = RemoveFileIndex(@, g),
                                 !.info = RemoveFileInfo(@, g),
                                 !.ip = @ \ {g}],
                      gone \ {g})

\* the paths the eviction loop acts on
EvictedPaths(deleted, ip) == {g \in deleted : g \in ip}

\* SearchIndexer.load_index_from_cache(directory, recursive): what it returns
\* (loaded, files_to_reindex, new_files) and the index it leaves
LoadIndexFromCache(c, order, idx, info, ip, files, plat, dir, recursive, now) ==
    LET st0 == [idx |-> idx, info |-> info, ip |-> ip, reindex |-> <<>>,
                restored |-> {}, raised |-> FALSE]
        failed(st) == [loaded |-> FALSE, reindex |-> <<>>, new |-> {}, deleted |-> {},
                       idx |-> st.idx, info |-> st.info, ip |-> st.ip,
                       restored |-> st.restored]
    IN  IF ~c.exists THEN failed(st0)
        ELSE IF ~c.readable THEN failed(st0)
        ELSE IF c.index_version # CacheVersion THEN failed(st0)
        ELSE LET st1 == LoadEntries(order, 1, st0, c.files, files, now)
             IN  IF st1.raised THEN failed(st1)
                 ELSE LET scan == ScanDirectory(files, dir, recursive)
                          current == {NormalizePath(plat, p) : p \in scan}
                          cached ==
                              {NormalizePath(plat, c.files[k].full_path) :
                                  k \in {k \in DOMAIN c.files :
                                           recursive
                                           \/ NormalizePath(plat, Dirname(c.files[k].full_path))
                                                = NormalizePath(plat, dir)}}
                          new == {p \in scan : NormalizePath(plat, p) \notin cached}
                          deleted == cached \ current
                          st2 == EvictAll(st1, EvictedPaths(deleted, st1.ip))
                      IN  [loaded |-> TRUE, reindex |-> st1.reindex, new |-> new,
                           deleted |-> deleted,
                           idx |-> st2.idx, info |-> st2.info, ip |-> st2.ip,
                           restored |-> st1.restored]

\* SearchIndexer.search_files_from_json: the entries whose file exists and
\* whose title or content contains the lower-cased query, scored, sorted and
\* capped; nothing when the file cannot be parsed
JsonMatches(c, files, query) ==
    {k \in DOMAIN c.files :
        /\ c.files[k].full_path \in DOMAIN files
        /\ files[c.files[k].full_path].exists
        /\ \/ IsSubstr(Lower(query), Lower(c.files[k].title))
           \/ IsSubstr(Lower(query), Lower(c.files[k].content))}

TitleScore == 2
ContentScore == 1

JsonResult(c, k, query) ==
    [file_path |-> c.files[k].full_path,
     relevance_score |->
        (IF IsSubstr(Lower(query), Lower(c.files[k].title)) THEN TitleScore ELSE 0)
        + (IF IsSubstr(Lower(query), Lower(c.files[k].content)) THEN ContentScore ELSE 0)]

SearchFilesFromJson(c, files, query, max_results) ==
    IF ~c.exists \/ ~c.readable THEN {<<>>}
    ELSE {LET list == [i \in 1..Len(order) |-> JsonResult(c, order[i], query)]
          IN  Take(SortByScore(list, Len(list)), max_results)
          : order \in Orders(JsonMatches(c, files, query))}

\* index of the last "." of a name, 0 if none
RECURSIVE LastDot(_, _)
LastDot(s, i) == IF i = 0 THEN 0 ELSE IF s[i] = "." THEN i ELSE LastDot(s, i - 1)

\* os.path.splitext(name)[0]: the name without its extension; a name that
\* has only dots before its last dot has no extension
Splitext(s) ==
    LET i == LastDot(s, Len(s))
    IN  IF i = 0 \/ \A k \in 1..(i - 1) : s[k] = "." THEN s ELSE SubSeq(s, 1, i - 1)

\* SearchIndexer.search_files_by_filename_from_json: the entries whose file
\* exists and whose title without extension contains the lower-cased query,
\* scored, sorted and capped; nothing when there is no readable cache
FilenameMatches(c, files, query) ==
    {k \in DOMAIN c.files :
        /\ c.files[k].full_path \in DOMAIN files
        /\ files[c.files[k].full_path].exists
        /\ IsSubstr(Lower(query), Lower(Splitext(Lower(c.files[k].title))))}

FilenameScore == 1
FilenamePrefixScore == 2

FilenameResult(c, k, query) ==
    [file_path |-> c.files[k].full_path,
     relevance_score |->
        IF StartsWith(Lower(Splitext(Lower(c.files[k].title))), Lower(query))
        THEN FilenamePrefixScore ELSE FilenameScore]

SearchFilesByFilenameFromJson(c, files, query, max_results) ==
    IF ~c.exists \/ ~c.readable THEN {<<>>}
    ELSE {LET list == [i \in 1..Len(order) |-> FilenameResult(c, order[i], query)]
          IN  Take(SortByScore(list, Len(list)), max_results)
          : order \in Orders(FilenameMatches(c, files, query))}

\* SearchIndexer.search_files: the JSON cache when there is one, else the
\* in-memory index
SearchFiles(cdir, c, files, idx, info, query, max_results) ==
    IF cdir # <<>> /\ c.exists
    THEN SearchFilesFromJson(c, files, query, max_results)
    ELSE SearchResults(idx, info, query, max_results)

\* no index_directory call made yet
IdleRun ==
    [pc |-> "idle", ret |-> "none", recursive |-> FALSE, cache_loaded |-> FALSE,
     files_to_reindex |-> <<>>, new_files |-> {}, tasks |-> <<>>, collected |-> {},
     broke |-> FALSE, indexed_count |-> 0, saved |-> FALSE, pending_at_save |-> {},
     env_during |-> FALSE, start |-> <<>>,
     taken |-> <<>>, callbacks |-> 0, stopped |-> FALSE, late |-> 0,
     adding |-> {}]

\* a new SearchIndexer next to the directory D, whose two files have never
\* been indexed
IndexerInit(platforms) ==
    /\ platform \in platforms
    /\ fs = [p \in RunPaths |->
                [exists |-> TRUE, mtime |-> 0,
                 content |-> IF p = PathA THEN TextSa ELSE TextAb]]
    /\ cache = NoCache
    /\ indexed_paths = {}
    /\ stop_indexing = FALSE
    /\ cache_directory = <<>>
    /\ run = IdleRun
    /\ env_ops = 0

(***************************************************************************)
(* SearchWidget and its IndexingWorker threads; AuthenticationManager      *)
(***************************************************************************)

\* the directories the user can select: D, another one, and one that has
\* been deleted since it was selected
DirE == <<"E">>
DirGone == <<"G">>
ExistingDirs == {DirD, DirE}

\* IndexingWorker threads a widget creates in one history
MaxWorkers == 3

\* SearchWidget.__init__: no directory, the index button enabled, no
\* worker; `workers` are the IndexingWorker threads created so far, each
\* "indexing" (run() is inside index_directory), "emitted" (index_directory
\* has returned and indexing_finished is emitted, run() not yet left) or
\* "finished"; `signals` are the indexing_finished signals queued for the UI
\* thread; `ignored` is history: start_indexing returned at its isRunning
\* test while the index button was enabled
WidgetInit ==
    [current_directory |-> <<>>, index_button |-> TRUE, indexing_worker |-> 0,
     workers |-> <<>>, signals |-> 0, ignored |-> FALSE]

\* config.ADMIN_ACCOUNTS and config.DEPLOYABLE_ACCOUNTS: the account names,
\* and for each the password its bcrypt hash was made of
AdminAccounts == {"admin"}
DeployableAccounts == {"user1", "user2", "user3"}
PasswordOf ==
    [u \in AdminAccounts \cup DeployableAccounts |->
        CASE u = "admin" -> "admin123"
          [] u = "user1" -> "password1"
          [] u = "user2" -> "password2"
          [] OTHER -> "password3"]

\* config.ACCOUNT_EXPIRATION, as days of the model's calendar: user1 expires
\* last and user3 first
AccountExpiration ==
    [u \in DeployableAccounts |->
        CASE u = "user1" -> 3
          [] u = "user2" -> 2
          [] OTHER -> 1]

\* AuthenticationManager.__init__: nobody logged in (None is "none", and
\* login_time is <<>> or <<the day of the login>>); `expiration` is
\* config.ACCOUNT_EXPIRATION and `now` is datetime.now(); `call` is history:
\* the last call, its result and the session before it
NoUser == "none"
NoSession == [current_user |-> NoUser, is_admin |-> FALSE, login_time |-> <<>>]
NoCall == [op |-> "none", username |-> NoUser, ok |-> FALSE, pre |-> NoSession]
AuthInit ==
    [current_user |-> NoUser, is_admin |-> FALSE, login_time |-> <<>>,
     expiration |-> AccountExpiration, now |-> 0, call |-> NoCall]

AppInit ==
    /\ widget = WidgetInit
    /\ auth = AuthInit

(***************************************************************************)
(* Calls on one SearchIndex, one after the other                           *)
(***************************************************************************)

NoLast == [op |-> "none", path |-> <<>>, pre_index |-> <<>>, pre_info |-> <<>>,
           was_indexed |-> FALSE]
NoResult == [valid |-> FALSE, query |-> <<>>, max_results |-> 0, list |-> <<>>]

\* the latest value of the logical clock
MaxClock == 1

\* the threads that call one SearchIndex concurrently
Threads == {"t1", "t2"}

NoThread == "none"
IdleThread == [pc |-> "idle", op |-> "none", path |-> <<>>, content |-> <<>>,
               query |-> <<>>, max_results |-> 0, files |-> <<>>, res |-> <<>>,
               snap |-> <<>>]

\* a new SearchIndex with no call in progress
ConcInit ==
    /\ lock = [owner |-> NoThread, count |-> 0]
    /\ thr = [t \in Threads |-> IdleThread]
    /\ lin = [index |-> <<>>, info |-> <<>>]

IndexInit ==
    /\ index = <<>>
    /\ file_info = <<>>
    /\ last = NoLast
    /\ result = NoResult
    /\ clock = 0
    /\ ConcInit
    /\ IndexerInit({"posix"})
    /\ AppInit

\* time passes
Tick ==
    /\ clock < MaxClock
    /\ clock' = clock + 1
    /\ last' = NoLast
    /\ result' = NoResult
    /\ UNCHANGED <<index, file_info, concVars, appVars, runVars>>

\* index.add_file(p, c, file_info)
CallAddFile(p, c) ==
    /\ index' = AddFileIndex(index, p, c)
    /\ file_info' = AddFileInfo(file_info, p, c, FileInfoOf(p, c), clock)
    /\ last' = [op |-> "add", path |-> p, pre_index |-> index, pre_info |-> file_info,
                was_indexed |-> p \in DOMAIN file_info]
    /\ result' = NoResult
    /\ UNCHANGED <<clock, concVars, appVars, runVars>>

\* index.remove_file(p)
CallRemoveFile(p) ==
    /\ index' = RemoveFileIndex(index, p)
    /\ file_info' = RemoveFileInfo(file_info, p)
    /\ last' = IF last.op = "add" /\ last.path = p
               THEN [last EXCEPT !.op = "add_remove"]
               ELSE [NoLast EXCEPT !.op = "remove", !.path = p]
    /\ result' = NoResult
    /\ UNCHANGED <<clock, concVars, appVars, runVars>>

\* index.search(q, m)
CallSearch(q, m) ==
    /\ \E list \in SearchResults(index, file_info, q, m) :
          result' = [valid |-> TRUE, query |-> q, max_results |-> m, list |-> list]
    /\ index' = IndexAfterSearch(index, q)
    /\ last' = [NoLast EXCEPT !.op = "search"]
    /\ UNCHANGED <<file_info, clock, concVars, appVars, runVars>>

IndexNext ==
    \/ Tick
    \/ \E p \in Paths, c \in Contents : CallAddFile(p, c)
    \/ \E p \in Paths : CallRemoveFile(p)
    \/ \E q \in Queries, m \in MaxResultsValues : CallSearch(q, m)

SpecIndex == IndexInit /\ [][IndexNext]_vars

(***************************************************************************)
(* Properties of SearchIndex called sequentially (SpecIndex)               *)
(***************************************************************************)

\* every token a file of the model can contribute
AllFileTokens == UNION {FileTokens(p, c) : p \in Paths, c \in Contents}

\* C1: after any sequence of add_file and remove_file calls, a path is in the
\* postings of a token if and only if the path has a file entry and the token
\* is a token of "<basename> <content most recently added>"
C1_PostingsMatchEntries ==
    \A p \in Paths : \A t \in (DOMAIN index) \cup AllFileTokens :
        (p \in Postings(index, t))
            <=> (p \in DOMAIN file_info /\ t \in FileTokens(p, file_info[p].full_content))

\* C1 witness: a path was re-added with a content that lacks a token of its
\* old content
C1_Witness ==
    /\ last.op = "add"
    /\ last.was_indexed
    /\ FileTokens(last.path, last.pre_info[last.path].full_content)
         \ FileTokens(last.path, file_info[last.path].full_content) # {}

\* the files of a result list
ResultFiles(list) == {list[i].file_path : i \in 1..Len(list)}

\* the union of the candidate sets of all tokens of a query
CandidateUnion(idx, query) ==
    UNION {MatchingFiles(idx, t) : t \in SeqToSet(Tokenize(query))}

\* C2: a search that relaxes to OR returns, up to the max_results cap, the
\* union of the candidate sets of every query token, the first included
C2_OrReturnsUnionOfAllTokens ==
    (/\ result.valid
     /\ Tokenize(result.query) # <<>>
     /\ Relaxes(AndResults(TokenResults(index, Tokenize(result.query))), result.max_results))
    => LET union == CandidateUnion(index, result.query)
       IN  IF Cardinality(union) <= result.max_results
           THEN ResultFiles(result.list) = union
           ELSE /\ ResultFiles(result.list) \subseteq union
                /\ Len(result.list) = result.max_results

\* C6: add_file(p, c, m) followed immediately by remove_file(p) leaves the
\* postings and the file entries as they were before the add_file, whether or
\* not p was indexed before
C6_AddThenRemoveRestores ==
    last.op = "add_remove" => (index = last.pre_index /\ file_info = last.pre_info)

\* C6 as amended: the prior state is restored when p was not indexed before;
\* when it was, the result is the prior state without p: no entry of p, p in
\* no postings, every other entry and posting as before, no empty postings
C6_AddThenRemoveRestoresUnindexed ==
    last.op = "add_remove" =>
        IF last.was_indexed
        THEN /\ DOMAIN file_info = (DOMAIN last.pre_info) \ {last.path}
             /\ \A q \in DOMAIN file_info : file_info[q] = last.pre_info[q]
             /\ \A t \in (DOMAIN index) \cup (DOMAIN last.pre_index) :
                   Postings(index, t) = Postings(last.pre_index, t) \ {last.path}
             /\ \A t \in DOMAIN index : index[t] # {}
        ELSE index = last.pre_index /\ file_info = last.pre_info

\* C6 witness: an unindexed path was added next to other indexed files, with
\* tokens of its own, and then removed
C6_Witness ==
    /\ last.op = "add_remove"
    /\ ~last.was_indexed
    /\ DOMAIN last.pre_info # {}
    /\ last.path \notin DOMAIN file_info

\* the files that match every token of a query: the AND matches
AndMatches(idx, query) == AndResults(TokenResults(idx, Tokenize(query)))

\* C12: in the list search returns, every file that matches all query tokens
\* comes before every file that matches only some of them
C12_AndMatchesFirst ==
    (result.valid /\ Tokenize(result.query) # <<>>) =>
        \A i, j \in 1..Len(result.list) :
            (/\ result.list[i].file_path \in AndMatches(index, result.query)
             /\ result.list[j].file_path \notin AndMatches(index, result.query))
                => i < j

\* the files the OR branch of search has to add to the AND matches
OrOnly(idx, query) ==
    OrResults(TokenResults(idx, Tokenize(query))) \ AndMatches(idx, query)

\* C13: for every max_results, odd values included, search adds OR-only
\* results exactly when the number of AND matches is less than
\* max_results / 2
C13_RelaxesBelowHalf ==
    (result.valid /\ Tokenize(result.query) # <<>>) =>
        ((ResultFiles(result.list) \ AndMatches(index, result.query) # {})
            <=> (/\ 2 * Cardinality(AndMatches(index, result.query)) < result.max_results
                 /\ OrOnly(index, result.query) # {}))

\* the sum of 1/frequency over the query tokens the file itself contains
RECURSIVE OwnTokenScore(_, _, _, _)
OwnTokenScore(idx, p, qtokens, i) ==
    IF i > Len(qtokens) THEN 0
    ELSE (IF qtokens[i] \in DOMAIN idx /\ p \in idx[qtokens[i]]
          THEN ScoreScale \div Cardinality(idx[qtokens[i]]) ELSE 0)
         + OwnTokenScore(idx, p, qtokens, i + 1)

\* C14: the relevance_score of every file search returns is 2.0 if at least
\* one query token is a substring of its file name (once, however many
\* tokens match) plus 1/frequency for each query token the file itself
\* contains; a query token the file does not contain adds nothing
C14_ScoreAsDocumented ==
    result.valid =>
        \A i \in 1..Len(result.list) :
            LET p == result.list[i].file_path
                qtokens == Tokenize(result.query)
            IN result.list[i].relevance_score =
                (IF \E k \in 1..Len(qtokens) : IsSubstr(qtokens[k], Lower(Basename(p)))
                 THEN FilenameBonus ELSE 0)
                + OwnTokenScore(index, p, qtokens, 1)

\* C17: in every state reachable by add_file, remove_file and search calls
\* no token of the inverted index maps to an empty set of paths: removing
\* the last path of a token deletes the token, and the lookups of search and
\* of the scoring create no token entry
C17_NoEmptyPostings == \A t \in DOMAIN index : index[t] # {}

\* a remove_file that took the last path of a token and deleted the token
C17_Witness ==
    /\ last.op = "add_remove"
    /\ index # <<>>
    /\ \E t \in DOMAIN last.pre_index : t \notin DOMAIN index

\* a search for a token that is not indexed, over a non-empty index
C17_WitnessSearch ==
    /\ result.valid
    /\ index # <<>>
    /\ \E t \in SeqToSet(Tokenize(result.query)) : t \notin DOMAIN index

\* the indexed files that have a token containing the text q
FilesOfTokensContaining(idx, q) ==
    UNION {idx[tok] : tok \in {k \in DOMAIN idx : IsSubstr(Lower(q), k)}}

\* a search whose query is one character that some indexed token contains
OneCharSearch ==
    /\ result.valid
    /\ Len(result.query) = 1
    /\ FilesOfTokensContaining(index, result.query) # {}

\* C19: search imposes no minimum query length: a query of one character
\* that is a substring of some indexed token returns the files containing
\* that token (up to max_results)
C19_OneCharQueryAnswered ==
    OneCharSearch =>
        /\ ResultFiles(result.list) \subseteq FilesOfTokensContaining(index, result.query)
        /\ \/ ResultFiles(result.list) = FilesOfTokensContaining(index, result.query)
           \/ Len(result.list) = result.max_results

\* C19 as amended: search applies the two-character floor of the tokenizer
\* to the words of the query: a query whose words are all shorter than two
\* characters returns an empty list, whatever the index holds
C19_ShortQueryReturnsNothing ==
    (/\ result.valid
     /\ \A w \in SeqToSet(SplitWords(CleanText(result.query), <<>>, <<>>)) :
           Len(w) < MinTokenLen)
    => result.list = <<>>

\* a search for one character that indexed tokens contain returned nothing
C19_Witness == OneCharSearch /\ result.list = <<>>

(***************************************************************************)
(* Concurrent calls on one SearchIndex (SpecConc)                          *)
(*                                                                         *)
(* Every method body runs inside `with self.lock`; add_file calls          *)
(* remove_file with the lock held, which the RLock lets the owner          *)
(* re-enter.  Each thread steps through the statements of its call.        *)
(***************************************************************************)

ConcPaths == {PathA, PathB}
ConcContents == {TextAb, TextSa}
ConcQueries == {QuerySaAb}
ConcMaxResults == 10

\* a `with self.lock` that lets every thread in
MayAcquireAlways(lk, t) == TRUE

\* RLock.acquire succeeds when the lock is free or held by the caller
MayAcquire(lk, t) == lk.owner = NoThread \/ lk.owner = t

\* RLock.acquire
Acquire(lk, t) == [owner |-> t, count |-> lk.count + 1]

\* RLock.release at the end of a `with` block
Release(lk) ==
    IF lk.count <= 1 THEN [owner |-> NoThread, count |-> 0]
    ELSE [lk EXCEPT !.count = @ - 1]

\* add_file: `with self.lock` (line 86)
ConcEnterAdd(t, p, c) ==
    /\ thr[t].pc = "idle"
    /\ MayAcquire(lock, t)
    /\ lock' = Acquire(lock, t)
    /\ thr' = [thr EXCEPT ![t] = [IdleThread EXCEPT !.pc = "add_call_remove", !.op = "add",
                                                    !.path = p, !.content = c]]
    /\ lin' = [index |-> AddFileIndex(lin.index, p, c),
               info |-> AddFileInfo(lin.info, p, c, FileInfoOf(p, c), clock)]
    /\ UNCHANGED <<indexVars, histVars, clock, runVars, appVars>>

\* add_file: self.remove_file(file_path), whose body re-enters the lock
ConcAddCallsRemove(t) ==
    /\ thr[t].pc = "add_call_remove"
    /\ MayAcquire(lock, t)
    /\ lock' = Acquire(lock, t)
    /\ thr' = [thr EXCEPT ![t].pc = "rm_info"]
    /\ UNCHANGED <<indexVars, histVars, clock, lin, runVars, appVars>>

\* remove_file called on its own: `with self.lock` (line 116)
ConcEnterRemove(t, p) ==
    /\ thr[t].pc = "idle"
    /\ MayAcquire(lock, t)
    /\ lock' = Acquire(lock, t)
    /\ thr' = [thr EXCEPT ![t] = [IdleThread EXCEPT !.pc = "rm_info", !.op = "remove",
                                                    !.path = p]]
    /\ lin' = [index |-> RemoveFileIndex(lin.index, p), info |-> RemoveFileInfo(lin.info, p)]
    /\ UNCHANGED <<indexVars, histVars, clock, runVars, appVars>>

\* remove_file: del self.file_info[file_path]
ConcRemoveInfo(t) ==
    /\ thr[t].pc = "rm_info"
    /\ file_info' = RemoveFileInfo(file_info, thr[t].path)
    /\ thr' = [thr EXCEPT ![t].pc = "rm_post"]
    /\ UNCHANGED <<index, histVars, clock, lock, lin, runVars, appVars>>

\* remove_file: the postings loops, then the end of its `with` block
ConcRemovePostings(t) ==
    /\ thr[t].pc = "rm_post"
    /\ index' = RemoveFileIndex(index, thr[t].path)
    /\ lock' = Release(lock)
    /\ thr' = [thr EXCEPT ![t] = IF thr[t].op = "add" THEN [@ EXCEPT !.pc = "add_info"]
                                 ELSE IdleThread]
    /\ UNCHANGED <<file_info, histVars, clock, lin, runVars, appVars>>

\* add_file: self.file_info[file_path] = {...}
ConcAddInfo(t) ==
    /\ thr[t].pc = "add_info"
    /\ file_info' = AddFileInfo(file_info, thr[t].path, thr[t].content,
                                FileInfoOf(thr[t].path, thr[t].content), clock)
    /\ thr' = [thr EXCEPT ![t].pc = "add_post"]
    /\ UNCHANGED <<index, histVars, clock, lock, lin, runVars, appVars>>

\* add_file: tokenize, post the tokens, then the end of its `with` block
ConcAddPostings(t) ==
    /\ thr[t].pc = "add_post"
    /\ index' = InsertPostings(index, thr[t].path, FileTokens(thr[t].path, thr[t].content))
    /\ lock' = Release(lock)
    /\ thr' = [thr EXCEPT ![t] = IdleThread]
    /\ UNCHANGED <<file_info, histVars, clock, lin, runVars, appVars>>

\* search: `with self.lock` (line 143)
ConcEnterSearch(t, q, m) ==
    /\ thr[t].pc = "idle"
    /\ MayAcquire(lock, t)
    /\ lock' = Acquire(lock, t)
    /\ thr' = [thr EXCEPT ![t] = [IdleThread EXCEPT !.pc = "s_match", !.op = "search",
                                                    !.query = q, !.max_results = m,
                                                    !.snap = lin]]
    /\ UNCHANGED <<indexVars, histVars, clock, lin, runVars, appVars>>

\* search: candidate sets, AND, OR and the cap, read from self.index
ConcSearchMatch(t) ==
    /\ thr[t].pc = "s_match"
    /\ \E files \in SearchFileLists(index, Tokenize(thr[t].query), thr[t].max_results) :
          thr' = [thr EXCEPT ![t].pc = "s_build", ![t].files = files]
    /\ UNCHANGED <<indexVars, histVars, clock, lock, lin, runVars, appVars>>

\* search: the result entries, read from self.file_info, the sort, and the end
\* of the `with` block
ConcSearchBuild(t) ==
    /\ thr[t].pc = "s_build"
    /\ thr' = [thr EXCEPT ![t].pc = "s_ret",
                          ![t].res = SearchBuild(index, file_info, thr[t].files,
                                                 Tokenize(thr[t].query))]
    /\ lock' = Release(lock)
    /\ UNCHANGED <<indexVars, histVars, clock, lin, runVars, appVars>>

\* the caller of search takes the returned list
ConcSearchReturn(t) ==
    /\ thr[t].pc = "s_ret"
    /\ thr' = [thr EXCEPT ![t] = IdleThread]
    /\ UNCHANGED <<indexVars, histVars, clock, lock, lin, runVars, appVars>>

ConcNext ==
    \E t \in Threads :
        \/ \E p \in ConcPaths, c \in ConcContents : ConcEnterAdd(t, p, c)
        \/ ConcAddCallsRemove(t)
        \/ \E p \in ConcPaths : ConcEnterRemove(t, p)
        \/ ConcRemoveInfo(t)
        \/ ConcRemovePostings(t)
        \/ ConcAddInfo(t)
        \/ ConcAddPostings(t)
        \/ \E q \in ConcQueries : ConcEnterSearch(t, q, ConcMaxResults)
        \/ ConcSearchMatch(t)
        \/ ConcSearchBuild(t)
        \/ ConcSearchReturn(t)

SpecConc == IndexInit /\ [][ConcNext]_vars

\* postings and entries agree: no path has postings without an entry, an
\* entry without its postings, or postings of a content it no longer has
Consistent(idx, info) ==
    /\ \A t \in DOMAIN idx : idx[t] # {}
    /\ \A p \in Paths : \A t \in (DOMAIN idx) \cup AllFileTokens :
          (p \in Postings(idx, t))
              <=> (p \in DOMAIN info /\ t \in FileTokens(p, info[p].full_content))

\* C7: concurrent add_file, remove_file and search calls take effect
\* atomically: a search reads only an index in which no upsert is half done,
\* returns what the calls before it (in lock order) produce, and whenever no
\* call is in progress the index is the one the calls produce when run one
\* after the other in the order they took the lock
C7_CallsAreAtomic ==
    /\ \A t \in Threads :
          thr[t].pc \in {"s_match", "s_build"}
              => /\ Consistent(index, file_info)
                 /\ index = thr[t].snap.index
                 /\ file_info = thr[t].snap.info
    /\ \A t \in Threads :
          thr[t].pc = "s_ret"
              => thr[t].res \in SearchResults(thr[t].snap.index, thr[t].snap.info,
                                              thr[t].query, thr[t].max_results)
    /\ lock.owner = NoThread => (index = lin.index /\ file_info = lin.info)

\* C7 witness: a thread has returned from a search whose result holds a path
\* that the other thread is re-adding at that moment
C7_Witness ==
    \E t, u \in Threads :
        /\ thr[t].pc = "s_ret"
        /\ thr[t].res # <<>>
        /\ thr[u].pc \in {"rm_info", "rm_post", "add_info", "add_post"}
        /\ thr[u].op = "add"
        /\ thr[u].path \in DOMAIN thr[t].snap.info

(***************************************************************************)
(* SearchIndexer.index_directory (SpecRun)                                 *)
(*                                                                         *)
(* The calling thread loads the cache, collects the files to index and     *)
(* submits one task per file to the pool; the tasks run on worker threads  *)
(* while the caller consumes the completed futures; leaving the `with`     *)
(* block waits for every task; then the cache is saved.  The files change  *)
(* from outside at any moment.                                             *)
(***************************************************************************)

\* the index_directory calls of a history, and its events from outside the
\* call: a file written or deleted, the cache file damaged, an extraction
\* that raises, a stop request, a restart of the application
MaxRuns == 2
MaxEnvOps == 2

RunQueries == {QueryMd}
RunMaxResults == 10

\* what the run in progress remembers of the moment it started
StartFacts(ld, recursive) ==
    [cache |-> cache,
     bad_cache |-> cache.exists /\ (\/ ~cache.readable
                                    \/ cache.index_version # CacheVersion
                                    \/ \E k \in DOMAIN cache.files :
                                          /\ ~IsIsoFormat(cache.files[k].modified)
                                          /\ GetFileHash(fs, cache.files[k].full_path)
                                                = cache.files[k].file_hash
                                          /\ cache.files[k].file_hash # <<>>),
     changed |-> {p \in RunPaths :
                    /\ fs[p].exists
                    /\ \E k \in DOMAIN cache.files :
                          /\ cache.files[k].full_path = p
                          /\ cache.files[k].file_hash # GetFileHash(fs, p)},
     known |-> indexed_paths \cup {cache.files[k].full_path : k \in DOMAIN cache.files},
     memory |-> DOMAIN file_info,
     scope |-> ScanDirectory(fs, DirD, recursive),
     restored |-> ld.restored,
     deleted |-> ld.deleted,
     fs |-> fs,
     again |-> /\ run.ret \in {"returned", "restarted"}
               /\ run.recursive = recursive
               /\ ~run.env_during,
     prev_complete |-> /\ run.saved
                       /\ \A p \in DOMAIN run.tasks : run.tasks[p].status = "ok"]

\* a submitted task that has not run yet
PendingTask == [status |-> "pending", content |-> <<>>]

\* the files index_directory dispatches: the changed and new files when the
\* cache was loaded, else every file of the scan
FilesToIndex(ld, files, dir, recursive) ==
    IF ld.loaded THEN SeqToSet(ld.reindex) \cup ld.new
    ELSE ScanDirectory(files, dir, recursive)

\* the save condition at the end of index_directory
SaveCondition(indexed_count, cache_loaded) == indexed_count > 0 \/ cache_loaded

\* index_directory up to the submission of the tasks, with the cache file
\* read in the given order: set_cache_directory, load_index_from_cache, the
\* file list; with no file to index it saves the cache if one was loaded and
\* returns.  The value is the state it leaves.
RunStarted(order, recursive, now) ==
    LET ld == LoadIndexFromCache(cache, order, index, file_info, indexed_paths,
                                 fs, platform, DirD, recursive, now)
        todo == FilesToIndex(ld, fs, DirD, recursive)
        r0 == [IdleRun EXCEPT !.recursive = recursive,
                              !.cache_loaded = ld.loaded,
                              !.files_to_reindex = ld.reindex,
                              !.new_files = ld.new,
                              !.tasks = [p \in todo |-> PendingTask],
                              !.start = StartFacts(ld, recursive)]
    IN  [index |-> ld.idx,
         file_info |-> ld.info,
         indexed_paths |-> ld.ip,
         run |-> IF todo = {}
                 THEN [r0 EXCEPT !.ret = "returned", !.saved = ld.loaded]
                 ELSE [r0 EXCEPT !.pc = "pool"],
         cache |-> IF todo = {} /\ ld.loaded
                   THEN SaveIndexToCache(ld.ip, ld.info, fs, DirD, now)
                   ELSE cache]

\* a call of index_directory(D, recursive)
RunStart(recursive) ==
    /\ run.pc = "idle"
    /\ clock < MaxRuns
    /\ clock' = clock + 1
    /\ cache_directory' = DirD
    /\ \E order \in Orders(DOMAIN cache.files) :
          \E nx \in {RunStarted(order, recursive, clock + 1)} :
             /\ index' = nx.index
             /\ file_info' = nx.file_info
             /\ indexed_paths' = nx.indexed_paths
             /\ run' = nx.run
             /\ cache' = nx.cache
    /\ last' = NoLast
    /\ result' = NoResult
    /\ UNCHANGED <<concVars, appVars, platform, fs, stop_indexing, env_ops>>

\* tasks after the Extraction Provider raised in one of them and the whole
\* pool went down with it
TasksAfterRaisePoolDown(tasks, p) ==
    [q \in DOMAIN tasks |->
        IF q = p THEN [status |-> "raised", content |-> <<>>]
        ELSE IF tasks[q].status = "pending" THEN [status |-> "dropped", content |-> <<>>]
        ELSE tasks[q]]

\* tasks after the Extraction Provider raised in one of them:
\* _index_single_file catches the exception and returns False
TasksAfterRaise(tasks, p) == [tasks EXCEPT ![p] = [status |-> "raised", content |-> <<>>]]

\* _index_single_file(p) on a worker thread: the file is supported, its text
\* is extracted and added to the index
TaskIndexes(p) ==
    /\ run.pc = "pool"
    /\ p \in DOMAIN run.tasks
    /\ run.tasks[p].status = "pending"
    /\ fs[p].exists
    /\ index' = AddFileIndex(index, p, fs[p].content)
    /\ file_info' = AddFileInfo(file_info, p, fs[p].content,
                                FileInfoOf(p, fs[p].content), clock)
    /\ indexed_paths' = indexed_paths \cup {p}
    /\ run' = [run EXCEPT !.tasks[p] = [status |-> "ok", content |-> fs[p].content]]
    /\ UNCHANGED <<histVars, clock, concVars, appVars, platform, fs, cache, stop_indexing,
                   cache_directory, env_ops>>

\* _index_single_file(p): the file is gone, get_file_info reports it as not
\* supported and the task returns False
TaskUnsupported(p) ==
    /\ run.pc = "pool"
    /\ p \in DOMAIN run.tasks
    /\ run.tasks[p].status = "pending"
    /\ ~fs[p].exists
    /\ run' = [run EXCEPT !.tasks[p] = [status |-> "false", content |-> <<>>]]
    /\ UNCHANGED <<indexVars, histVars, clock, concVars, appVars, platform, fs, cache,
                   indexed_paths, stop_indexing, cache_directory, env_ops>>

\* _index_single_file(p): the Extraction Provider raises
TaskRaises(p) ==
    /\ run.pc = "pool"
    /\ env_ops < MaxEnvOps
    /\ p \in DOMAIN run.tasks
    /\ run.tasks[p].status = "pending"
    /\ run' = [run EXCEPT !.tasks = TasksAfterRaise(run.tasks, p)]
    /\ env_ops' = env_ops + 1
    /\ UNCHANGED <<indexVars, histVars, clock, concVars, appVars, platform, fs, cache,
                   indexed_paths, stop_indexing, cache_directory>>

\* one round of the loop over as_completed(futures): leave the loop if
\* stop_indexing is set, else count the result of the completed task
CollectResult(p) ==
    /\ run.pc = "pool"
    /\ ~run.broke
    /\ p \in DOMAIN run.tasks
    /\ p \notin run.collected
    /\ run.tasks[p].status # "pending"
    /\ run.taken = <<>>
    /\ run' = IF stop_indexing
              THEN [run EXCEPT !.broke = TRUE]
              ELSE [run EXCEPT !.collected = @ \cup {p},
                               !.indexed_count =
                                   IF run.tasks[p].status = "ok" THEN @ + 1 ELSE @,
                               !.callbacks = @ + 1]
    /\ UNCHANGED <<indexVars, histVars, clock, concVars, appVars, platform, fs, cache,
                   indexed_paths, stop_indexing, cache_directory, env_ops>>

\* a pool whose `with` block is left without waiting for its tasks
PoolSettledNoWait(tasks) == TRUE

\* the end of the `with ThreadPoolExecutor` block: shutdown(wait=True) returns
\* when no task is left to run
PoolSettled(tasks) == \A p \in DOMAIN tasks : tasks[p].status # "pending"

\* the loop over as_completed has ended
LoopEnded(r) ==
    r.broke \/ \A p \in DOMAIN r.tasks : p \in r.collected \/ r.tasks[p].status = "dropped"

\* index_directory after the loop: the pool is shut down, the cache is saved
\* if a result was counted or a cache was loaded, and the call returns
RunFinish ==
    /\ run.pc = "pool"
    /\ LoopEnded(run)
    /\ PoolSettled(run.tasks)
    /\ LET save == SaveCondition(run.indexed_count, run.cache_loaded)
       IN  /\ cache' = IF save
                       THEN SaveIndexToCache(indexed_paths, file_info, fs, cache_directory, clock)
                       ELSE cache
           /\ run' = [run EXCEPT !.pc = "idle", !.ret = "returned", !.saved = save,
                                 !.pending_at_save =
                                     IF save
                                     THEN {p \in DOMAIN run.tasks :
                                             run.tasks[p].status = "pending"}
                                     ELSE {}]
    /\ UNCHANGED <<indexVars, histVars, clock, concVars, appVars, platform, fs, indexed_paths,
                   stop_indexing, cache_directory, env_ops>>

\* what is left of the last run once the files have changed: nothing of a
\* run that has returned, and the fact of the change in a run in progress
Forget(r) == IF r.pc = "idle" THEN IdleRun ELSE [r EXCEPT !.env_during = TRUE]

\* SearchIndexer.stop_indexing_process, called from another thread during a run
StopIndexingProcess ==
    /\ run.pc = "pool"
    /\ env_ops < MaxEnvOps
    /\ ~stop_indexing
    /\ stop_indexing' = TRUE
    /\ env_ops' = env_ops + 1
    /\ run' = [run EXCEPT !.stopped = TRUE]
    /\ last' = NoLast
    /\ result' = NoResult
    /\ UNCHANGED <<indexVars, clock, concVars, appVars, platform, fs, cache, indexed_paths,
                   cache_directory>>

\* SearchIndexer.__init__: the application starts again with a new indexer
NewIndexer ==
    /\ run.pc = "idle"
    /\ clock > 0
    /\ env_ops < MaxEnvOps
    /\ env_ops' = env_ops + 1
    /\ index' = <<>>
    /\ file_info' = <<>>
    /\ indexed_paths' = {}
    /\ stop_indexing' = FALSE
    /\ cache_directory' = <<>>
    /\ run' = IF run.ret = "returned" THEN [run EXCEPT !.ret = "restarted"] ELSE run
    /\ last' = NoLast
    /\ result' = NoResult
    /\ UNCHANGED <<clock, concVars, appVars, platform, fs, cache>>

\* SearchIndexer.search_files(q, m) between runs
CallSearchFiles(q, m) ==
    /\ run.pc = "idle"
    /\ \E list \in SearchFiles(cache_directory, cache, fs, index, file_info, q, m) :
          result' = [valid |-> TRUE, query |-> q, max_results |-> m, list |-> list]
    /\ last' = [NoLast EXCEPT !.op = "search"]
    /\ UNCHANGED <<indexVars, clock, concVars, appVars, runVars>>

\* somebody writes another text to a file of the directory, or creates it
FileWritten(p, c) ==
    /\ env_ops < MaxEnvOps
    /\ ~fs[p].exists \/ fs[p].content # c
    /\ fs' = [fs EXCEPT ![p] = [exists |-> TRUE, mtime |-> fs[p].mtime + 1, content |-> c]]
    /\ env_ops' = env_ops + 1
    /\ run' = Forget(run)
    /\ last' = NoLast
    /\ result' = NoResult
    /\ UNCHANGED <<indexVars, clock, concVars, appVars, platform, cache, indexed_paths,
                   stop_indexing, cache_directory>>

\* somebody deletes a file of the directory
FileDeleted(p) ==
    /\ env_ops < MaxEnvOps
    /\ fs[p].exists
    /\ fs' = [fs EXCEPT ![p] = [exists |-> FALSE, mtime |-> fs[p].mtime, content |-> <<>>]]
    /\ env_ops' = env_ops + 1
    /\ run' = Forget(run)
    /\ last' = NoLast
    /\ result' = NoResult
    /\ UNCHANGED <<indexVars, clock, concVars, appVars, platform, cache, indexed_paths,
                   stop_indexing, cache_directory>>

\* the cache file is damaged between runs: truncated, written by another
\* version, or one timestamp edited
CacheTruncated ==
    /\ env_ops < MaxEnvOps
    /\ run.pc = "idle"
    /\ cache.exists /\ cache.readable
    /\ cache' = [cache EXCEPT !.readable = FALSE]
    /\ env_ops' = env_ops + 1
    /\ run' = Forget(run)
    /\ last' = NoLast
    /\ result' = NoResult
    /\ UNCHANGED <<indexVars, clock, concVars, appVars, platform, fs, indexed_paths,
                   stop_indexing, cache_directory>>

OtherVersion == "0.9"

CacheOtherVersion ==
    /\ env_ops < MaxEnvOps
    /\ run.pc = "idle"
    /\ cache.exists /\ cache.readable /\ cache.index_version = CacheVersion
    /\ cache' = [cache EXCEPT !.index_version = OtherVersion]
    /\ env_ops' = env_ops + 1
    /\ run' = Forget(run)
    /\ last' = NoLast
    /\ result' = NoResult
    /\ UNCHANGED <<indexVars, clock, concVars, appVars, platform, fs, indexed_paths,
                   stop_indexing, cache_directory>>

CacheEntryEdited(k) ==
    /\ env_ops < MaxEnvOps
    /\ run.pc = "idle"
    /\ cache.exists /\ cache.readable /\ cache.index_version = CacheVersion
    /\ k \in DOMAIN cache.files
    /\ IsIsoFormat(cache.files[k].modified)
    /\ cache' = [cache EXCEPT !.files[k].modified = BadTimestamp]
    /\ env_ops' = env_ops + 1
    /\ run' = Forget(run)
    /\ last' = NoLast
    /\ result' = NoResult
    /\ UNCHANGED <<indexVars, clock, concVars, appVars, platform, fs, indexed_paths,
                   stop_indexing, cache_directory>>

RunNext ==
    \/ \E recursive \in BOOLEAN : RunStart(recursive)
    \/ \E p \in RunPaths : TaskIndexes(p)
    \/ \E p \in RunPaths : TaskUnsupported(p)
    \/ \E p \in RunPaths : TaskRaises(p)
    \/ \E p \in RunPaths : CollectResult(p)
    \/ RunFinish
    \/ StopIndexingProcess
    \/ NewIndexer
    \/ \E q \in RunQueries : CallSearchFiles(q, RunMaxResults)
    \/ \E p \in RunPaths, c \in RunContents : FileWritten(p, c)
    \/ \E p \in RunPaths : FileDeleted(p)
    \/ CacheTruncated
    \/ CacheOtherVersion
    \/ \E k \in {RelPath(p, DirD) : p \in RunPaths} : CacheEntryEdited(k)

RunInit ==
    /\ index = <<>>
    /\ file_info = <<>>
    /\ last = NoLast
    /\ result = NoResult
    /\ clock = 0
    /\ ConcInit
    /\ IndexerInit({"posix", "nt"})
    /\ AppInit

SpecRun == RunInit /\ [][RunNext]_vars

(***************************************************************************)
(* Properties of index_directory (SpecRun)                                 *)
(***************************************************************************)

\* the last index_directory call has returned and nothing has happened since
\* but searches
Done == run.pc = "idle" /\ run.ret = "returned"

\* a run has started and its facts are still known
Started == run.start # <<>>

\* the cache entries of a path
EntriesOf(c, p) == {k \in DOMAIN c.files : c.files[k].full_path = p}

\* C3: a previously indexed file that was removed from disk before a run of
\* index_directory is, after the run, absent from the in-memory index, from
\* the persisted cache and from every later search result, whether the run
\* uses the same indexer or a new one, recursively or not
C3_DeletedFileAbsentAfterRerun ==
    Done =>
        \A p \in run.start.known :
            (~run.start.fs[p].exists /\ ~fs[p].exists)
                => /\ p \notin DOMAIN file_info
                   /\ \A t \in DOMAIN index : p \notin index[t]
                   /\ p \notin indexed_paths
                   /\ EntriesOf(cache, p) = {}
                   /\ result.valid => p \notin ResultFiles(result.list)

\* C4: a cached file that still exists and whose mtime or size differs from
\* the hashed ones is returned in files_to_reindex by a load of a sound cache,
\* and once the run has completed the index and the cache hold its newly
\* extracted content and no token that only its old content had
C4_ChangedFileReindexed ==
    (Started /\ ~run.start.bad_cache) =>
        \A p \in run.start.changed :
            /\ run.cache_loaded
            /\ p \in SeqToSet(run.files_to_reindex)
            /\ (Done /\ fs[p].exists) =>
                 LET old == UNION {FileTokens(p, run.start.cache.files[k].content) :
                                      k \in EntriesOf(run.start.cache, p)}
                     held == (IF p \in DOMAIN file_info
                              THEN FileTokens(p, file_info[p].full_content) ELSE {})
                             \cup {t \in DOMAIN index : p \in index[t]}
                             \cup UNION {FileTokens(p, cache.files[k].content) :
                                            k \in EntriesOf(cache, p)}
                 IN  IF run.tasks[p].status = "ok"
                     THEN /\ p \in DOMAIN file_info
                          /\ file_info[p].full_content = run.tasks[p].content
                          /\ \A k \in EntriesOf(cache, p) :
                                cache.files[k].content = run.tasks[p].content
                          /\ EntriesOf(cache, p) # {}
                          /\ held = FileTokens(p, run.tasks[p].content)
                     ELSE (old \ FileTokens(p, fs[p].content)) \cap held = {}

\* C5: indexing the same unchanged directory twice in a row (the first run
\* having extracted every file it dispatched and written the cache) yields
\* identical cache content and zero re-extractions: in the second run every
\* file is classified unchanged, no extraction task is dispatched, and the
\* cache written holds the same entries, the same total_files and the same
\* index_version as before (last_indexed, the time of the write, set aside)
C5_SecondRunIdentical ==
    (Started /\ run.start.again /\ run.start.prev_complete) =>
        /\ DOMAIN run.tasks = {}
        /\ run.files_to_reindex = <<>>
        /\ run.new_files = {}
        /\ Done => /\ cache.files = run.start.cache.files
                   /\ cache.total_files = run.start.cache.total_files
                   /\ cache.index_version = run.start.cache.index_version

\* C8: in a run that is not cancelled, a task in which the Extraction Provider
\* raised keeps no other dispatched file from being extracted and added to
\* the index (a task returns False without extracting only for a file that
\* was deleted while the run was in progress), and index_directory returns
\* normally
C8_RaiseDoesNotStopOthers ==
    /\ run.ret \in {"none", "returned", "restarted"}
    /\ (Done /\ ~run.broke /\ \E q \in DOMAIN run.tasks : run.tasks[q].status = "raised")
        => \A p \in DOMAIN run.tasks :
              /\ run.tasks[p].status \in {"ok", "false", "raised"}
              /\ run.tasks[p].status = "false" => run.env_during
              /\ run.tasks[p].status = "ok"
                    => /\ p \in DOMAIN file_info
                       /\ file_info[p].full_content = run.tasks[p].content
                       /\ \A t \in FileTokens(p, run.tasks[p].content) : p \in Postings(index, t)

\* C8 witness: a run has returned in which one task raised and another file
\* was extracted and is in the index
C8_Witness ==
    /\ Done
    /\ ~run.broke
    /\ \E q \in DOMAIN run.tasks : run.tasks[q].status = "raised"
    /\ \E p \in DOMAIN run.tasks : run.tasks[p].status = "ok" /\ p \in DOMAIN file_info

\* C9: with a cache file that is unreadable, malformed (an entry the load
\* reads holds no timestamp) or of another version, load_index_from_cache
\* returns (False, [], []), restores no cached entry, and index_directory
\* extracts every in-scope file of the directory
C9_BadCacheIsCacheMiss ==
    (Started /\ run.start.bad_cache) =>
        /\ ~run.cache_loaded
        /\ run.files_to_reindex = <<>>
        /\ run.new_files = {}
        /\ run.start.restored = {}
        /\ DOMAIN run.tasks = run.start.scope
        /\ Done => \A p \in DOMAIN run.tasks : run.tasks[p].status # "pending"

\* C10: in every run, cancelled or not, the cache is written only after every
\* submitted task has finished, and it is written if and only if a file was
\* successfully indexed during the run or a cache was loaded at its start
C10_CacheWrittenIffIndexedOrLoaded ==
    Done =>
        /\ run.saved => run.pending_at_save = {}
        /\ run.saved <=> (\/ run.cache_loaded
                          \/ \E p \in DOMAIN run.tasks : run.tasks[p].status = "ok")

\* C21: every cache entry pairs its content with the file_hash of the file
\* version the content was extracted from: an entry whose file_hash equals
\* the hash of the live file, which the next load classifies as unchanged,
\* holds the text of the live file
C21_HashIsOfExtractedVersion ==
    (cache.exists /\ cache.readable) =>
        \A k \in DOMAIN cache.files :
            LET p == cache.files[k].full_path
            IN  (/\ p \in DOMAIN fs
                 /\ fs[p].exists
                 /\ cache.files[k].file_hash = GetFileHash(fs, p))
                => cache.files[k].content = fs[p].content

\* C26: a cancellation affects only the run in progress: a later
\* index_directory call on the same SearchIndexer, during which nobody asks
\* to stop, processes every task completion, makes a progress callback for
\* each (the last one at 100 percent) and counts every indexed file
C26_StopAffectsOneRun ==
    (Done /\ Started /\ ~run.stopped /\ run.tasks # <<>>) =>
        /\ ~run.broke
        /\ run.collected = DOMAIN run.tasks
        /\ run.callbacks = Cardinality(DOMAIN run.tasks)
        /\ run.indexed_count =
             Cardinality({p \in DOMAIN run.tasks : run.tasks[p].status = "ok"})

\* C28: index_directory(recursive=False) on a directory that has a cache
\* dispatches for extraction, and evicts as deleted, only direct children of
\* the directory; cached files of subdirectories are left alone
C28_NonRecursiveStaysInDirectory ==
    (Started /\ ~run.recursive /\ run.cache_loaded) =>
        /\ \A p \in DOMAIN run.tasks : Dirname(p) = DirD
        /\ run.start.deleted \subseteq
               {NormalizePath(platform, p) : p \in {q \in RunPaths : Dirname(q) = DirD}}

\* C29: a run works in the order load and diff, eviction of the deleted
\* files, dispatch, extraction with add_file, cache write: once a task of the
\* run has started, the files the diff found deleted are out of the index,
\* and once the run has written the cache none of its tasks is still to run
C29_StepsInOrder ==
    /\ (Started /\ \E p \in DOMAIN run.tasks : run.tasks[p].status # "pending") =>
          \A p \in RunPaths :
              (NormalizePath(platform, p) \in run.start.deleted /\ ~fs[p].exists)
                  => p \notin DOMAIN file_info
    /\ run.saved => \A p \in DOMAIN run.tasks : run.tasks[p].status # "pending"

(***************************************************************************)
(* The loop over as_completed, statement by statement (SpecLoop)           *)
(*                                                                         *)
(* stop_indexing_process runs on another thread than index_directory, so   *)
(* the flag can be set between the check at the top of a round and the     *)
(* progress callback at its end.                                           *)
(***************************************************************************)

\* the top of a round: `if self.stop_indexing: break`, else the completed
\* future is in hand
CollectCheck(p) ==
    /\ run.pc = "pool"
    /\ ~run.broke
    /\ run.taken = <<>>
    /\ p \in DOMAIN run.tasks
    /\ p \notin run.collected
    /\ run.tasks[p].status # "pending"
    /\ run' = IF stop_indexing
              THEN [run EXCEPT !.broke = TRUE]
              ELSE [run EXCEPT !.taken = p]
    /\ UNCHANGED <<indexVars, histVars, clock, concVars, appVars, platform, fs, cache,
                   indexed_paths, stop_indexing, cache_directory, env_ops>>

\* the rest of the round: future.result() is counted and progress_callback
\* is called
CollectReport ==
    /\ run.pc = "pool"
    /\ run.taken # <<>>
    /\ run' = [run EXCEPT !.taken = <<>>,
                          !.collected = @ \cup {run.taken},
                          !.indexed_count =
                              IF run.tasks[run.taken].status = "ok" THEN @ + 1 ELSE @,
                          !.callbacks = @ + 1,
                          !.late = IF run.stopped THEN @ + 1 ELSE @]
    /\ UNCHANGED <<indexVars, histVars, clock, concVars, appVars, platform, fs, cache,
                   indexed_paths, stop_indexing, cache_directory, env_ops>>

LoopNext ==
    \/ \E recursive \in BOOLEAN : RunStart(recursive)
    \/ \E p \in RunPaths : TaskIndexes(p)
    \/ \E p \in RunPaths : TaskRaises(p)
    \/ \E p \in RunPaths : CollectCheck(p)
    \/ CollectReport
    \/ RunFinish
    \/ StopIndexingProcess

SpecLoop == RunInit /\ [][LoopNext]_vars

\* every submitted task of the run has run, and the file of each task that
\* extracted its text is in the index with that text
TasksAllRan ==
    \A p \in DOMAIN run.tasks :
        /\ run.tasks[p].status # "pending"
        /\ run.tasks[p].status = "ok"
              => /\ p \in DOMAIN file_info
                 /\ file_info[p].full_content = run.tasks[p].content
                 /\ \A t \in FileTokens(p, run.tasks[p].content) : p \in Postings(index, t)

\* C11: after stop_indexing_process is called during a run, no further
\* progress callback is invoked, every submitted task still runs to completion
\* and adds its file to the index, and index_directory returns only after all
\* of them have finished
C11_NoCallbackAfterStop ==
    /\ run.late = 0
    /\ Done => TasksAllRan

\* C11 as amended: after stop_indexing_process is called during a run, at most
\* one further progress callback is invoked (that of the round whose check of
\* the flag had already passed) and the loop is left only on a stop request;
\* every submitted task still runs to completion, each task that extracted
\* its text adds its file to the index, and index_directory returns only
\* after all of them have finished
C11_OneRoundAfterStop ==
    /\ run.late <= 1
    /\ run.broke => stop_indexing
    /\ Done => TasksAllRan

\* C11 witness: a run was stopped while a round was in progress, the loop
\* was left, and a task whose result the loop never took has put its file in
\* the index before index_directory returned
C11_Witness ==
    /\ Done
    /\ run.stopped
    /\ run.broke
    /\ run.late = 1
    /\ \E p \in DOMAIN run.tasks :
          p \notin run.collected /\ run.tasks[p].status = "ok" /\ p \in DOMAIN file_info

(***************************************************************************)
(* Searches for one word over files of longer words (SpecWords)            *)
(***************************************************************************)

\* texts whose words contain one another
TextAbc == <<"a", "b", "c">>
TextBcAb == <<"b", "c", " ", "a", "b">>
TextXbcx == <<"x", "b", "c", "x">>
WordContents == {TextAbc, TextBcAb, TextXbcx}

\* queries of one token
QueryBc == <<"b", "c">>
QueryAb == <<"a", "b">>
QueryBcx == <<"b", "c", "x">>
QueryZz == <<"z", "z">>
WordQueries == {QueryBc, QueryAb, QueryBcx, QueryZz}

\* max_results of the searches for one word
WordMaxResults == {2, 6}

\* index.add_file(p, c, file_info) with a text of WordContents
CallAddWords(p, c) ==
    /\ index' = AddFileIndex(index, p, c)
    /\ file_info' = AddFileInfo(file_info, p, c, FileInfoOf(p, c), clock)
    /\ last' = [op |-> "add", path |-> p, pre_index |-> index, pre_info |-> file_info,
                was_indexed |-> p \in DOMAIN file_info]
    /\ result' = NoResult
    /\ UNCHANGED <<clock, concVars, appVars, runVars>>

\* index.search(q, m) with a query of one token
CallSearchWord(q, m) ==
    /\ \E list \in SearchResults(index, file_info, q, m) :
          result' = [valid |-> TRUE, query |-> q, max_results |-> m, list |-> list]
    /\ index' = IndexAfterSearch(index, q)
    /\ last' = [NoLast EXCEPT !.op = "search"]
    /\ UNCHANGED <<file_info, clock, concVars, appVars, runVars>>

WordsNext ==
    \/ \E p \in Paths, c \in WordContents : CallAddWords(p, c)
    \/ \E p \in Paths : CallRemoveFile(p)
    \/ \E q \in WordQueries, m \in WordMaxResults : CallSearchWord(q, m)

SpecWords == IndexInit /\ [][WordsNext]_vars

\* the indexed files that have a token containing the token t
FilesContaining(info, t) ==
    {p \in DOMAIN info : \E tok \in FileTokens(p, info[p].full_content) : IsSubstr(t, tok)}

\* a search for one token with max_results at least twice the number of files
OneTokenSearch ==
    /\ result.valid
    /\ Len(Tokenize(result.query)) = 1
    /\ result.max_results >= 2 * Cardinality(DOMAIN file_info)

\* C15: for a single-token query and max_results at least twice the number
\* of indexed files, search returns exactly the indexed files that have a
\* token containing the query token, each once, and returns an empty list
\* when no indexed token contains it
C15_OneTokenExactFiles ==
    OneTokenSearch =>
        /\ ResultFiles(result.list) = FilesContaining(file_info, Tokenize(result.query)[1])
        /\ Len(result.list) = Cardinality(ResultFiles(result.list))
        /\ (\A tok \in DOMAIN index : ~IsSubstr(Tokenize(result.query)[1], tok))
               => result.list = <<>>

\* a search for "bc" that returns a file holding "xbcx" and no token "bc",
\* and leaves out another indexed file
C15_Witness ==
    /\ OneTokenSearch
    /\ \E p \in ResultFiles(result.list) :
          Tokenize(result.query)[1] \notin FileTokens(p, file_info[p].full_content)
    /\ DOMAIN file_info \ ResultFiles(result.list) # {}

\* a search for one token no indexed token contains, over a non-empty index
C15_WitnessNone ==
    /\ OneTokenSearch
    /\ file_info # <<>>
    /\ result.list = <<>>

(***************************************************************************)
(* The three searches with a small max_results (SpecCap)                   *)
(***************************************************************************)

\* a query of one character and the values of max_results of these searches
QueryA == <<"a">>
CapQueries == {QueryMd, QueryA}
CapMaxResults == {1, 2}

\* index.search(q, m) on the index of the SearchIndexer
CallSearchIndex(q, m) ==
    /\ \E list \in SearchResults(index, file_info, q, m) :
          result' = [valid |-> TRUE, query |-> q, max_results |-> m, list |-> list]
    /\ index' = IndexAfterSearch(index, q)
    /\ last' = [NoLast EXCEPT !.op = "search"]
    /\ UNCHANGED <<file_info, clock, concVars, appVars, runVars>>

\* search_files_from_json(q, m)
CallSearchFilesFromJson(q, m) ==
    /\ \E list \in (IF cache_directory = <<>> THEN {<<>>}
                    ELSE SearchFilesFromJson(cache, fs, q, m)) :
          result' = [valid |-> TRUE, query |-> q, max_results |-> m, list |-> list]
    /\ last' = [NoLast EXCEPT !.op = "search_json"]
    /\ UNCHANGED <<indexVars, clock, concVars, appVars, runVars>>

\* search_files_by_filename_from_json(q, m)
CallSearchFilesByFilename(q, m) ==
    /\ \E list \in (IF cache_directory = <<>> THEN {<<>>}
                    ELSE SearchFilesByFilenameFromJson(cache, fs, q, m)) :
          result' = [valid |-> TRUE, query |-> q, max_results |-> m, list |-> list]
    /\ last' = [NoLast EXCEPT !.op = "search_filename"]
    /\ UNCHANGED <<indexVars, clock, concVars, appVars, runVars>>

CapNext ==
    \/ \E recursive \in BOOLEAN : RunStart(recursive)
    \/ \E p \in RunPaths : TaskIndexes(p)
    \/ \E p \in RunPaths : CollectResult(p)
    \/ RunFinish
    \/ \E p \in RunPaths : FileDeleted(p)
    \/ \E q \in CapQueries, m \in CapMaxResults : CallSearchIndex(q, m)
    \/ \E q \in CapQueries, m \in CapMaxResults : CallSearchFilesFromJson(q, m)
    \/ \E q \in CapQueries, m \in CapMaxResults : CallSearchFilesByFilename(q, m)

SpecCap == RunInit /\ [][CapNext]_vars

\* C16: every call of search, search_files_from_json and
\* search_files_by_filename_from_json returns at most max_results entries,
\* and no file path appears twice in one result list
C16_CappedNoDuplicates ==
    result.valid =>
        /\ Len(result.list) <= result.max_results
        /\ \A i, j \in 1..Len(result.list) :
              result.list[i].file_path = result.list[j].file_path => i = j

\* a search by file name that more entries match than max_results allows
C16_Witness ==
    /\ result.valid
    /\ last.op = "search_filename"
    /\ Len(result.list) = result.max_results
    /\ cache.exists
    /\ Cardinality(FilenameMatches(cache, fs, result.query)) > result.max_results

\* a search of the index and one of the JSON cache cut at max_results
C16_WitnessIndex ==
    /\ result.valid
    /\ last.op = "search"
    /\ Len(result.list) = result.max_results
    /\ Cardinality(AndMatches(index, result.query)) > result.max_results

C16_WitnessJson ==
    /\ result.valid
    /\ last.op = "search_json"
    /\ Len(result.list) = result.max_results
    /\ cache.exists
    /\ Cardinality(JsonMatches(cache, fs, result.query)) > result.max_results

(***************************************************************************)
(* Extractions that fail inside a run (SpecExtract)                        *)
(***************************************************************************)

\* the string FileManager.extract_text returns when a handler raises, and
\* the handlers return when they catch the error themselves: the message
\* "text extraction error: <e>", its Hangul words written here with letters
\* of the model's alphabet
ExtractionErrorText == <<"x", "x", "l", ":", " ", "z", "z">>

\* _index_single_file(p) when the extraction fails and the Extraction
\* Provider returns its error string: the string is indexed as the content
\* of the file and the task returns True
TaskExtractionFails(p) ==
    /\ run.pc = "pool"
    /\ p \in DOMAIN run.tasks
    /\ run.tasks[p].status = "pending"
    /\ fs[p].exists
    /\ index' = AddFileIndex(index, p, ExtractionErrorText)
    /\ file_info' = AddFileInfo(file_info, p, ExtractionErrorText,
                                FileInfoOf(p, fs[p].content), clock)
    /\ indexed_paths' = indexed_paths \cup {p}
    /\ run' = [run EXCEPT !.tasks[p] = [status |-> "ok", content |-> ExtractionErrorText]]
    /\ UNCHANGED <<histVars, clock, concVars, appVars, platform, fs, cache, stop_indexing,
                   cache_directory, env_ops>>

ExtractNext ==
    \/ \E recursive \in BOOLEAN : RunStart(recursive)
    \/ \E p \in RunPaths : TaskIndexes(p)
    \/ \E p \in RunPaths : TaskExtractionFails(p)
    \/ \E p \in RunPaths : TaskRaises(p)
    \/ \E p \in RunPaths : CollectResult(p)
    \/ RunFinish
    \/ \E p \in RunPaths, c \in RunContents : FileWritten(p, c)

SpecExtract == RunInit /\ [][ExtractNext]_vars

\* the tasks of the run whose extraction failed, by raising or by returning
\* the error string
FailedExtractions(tasks) ==
    {p \in DOMAIN tasks :
        \/ tasks[p].status = "raised"
        \/ tasks[p].status = "ok" /\ tasks[p].content = ExtractionErrorText}

\* C18: a file whose text extraction fails during an indexing pass is not
\* added to the in-memory index or to the cache in that pass, whether the
\* Extraction Provider raises or returns its error string
C18_FailedExtractionNotIndexed ==
    (Done /\ Started) =>
        \A p \in FailedExtractions(run.tasks) :
            /\ p \in DOMAIN file_info =>
                  /\ p \in run.start.memory
                  /\ file_info[p].full_content # ExtractionErrorText
            /\ \A t \in DOMAIN index : p \in index[t] => p \in run.start.memory
            /\ \A k \in EntriesOf(cache, p) :
                  /\ k \in DOMAIN run.start.cache.files
                  /\ cache.files[k].content # ExtractionErrorText

(***************************************************************************)
(* A directory that holds a spreadsheet (SpecExcel)                        *)
(***************************************************************************)

\* a spreadsheet in the directory, next to the two text files
PathX == <<"D", "/", "x", ".", "x", "l", "s", "x">>
ExcelPaths == RunPaths \cup {PathX}

\* a new SearchIndexer next to the directory, nothing indexed, no cache
ExcelInit ==
    /\ index = <<>>
    /\ file_info = <<>>
    /\ last = NoLast
    /\ result = NoResult
    /\ clock = 0
    /\ ConcInit
    /\ platform \in {"posix", "nt"}
    /\ fs = [p \in ExcelPaths |->
                [exists |-> TRUE, mtime |-> 0,
                 content |-> IF p = PathA THEN TextSa ELSE TextAb]]
    /\ cache = NoCache
    /\ indexed_paths = {}
    /\ stop_indexing = FALSE
    /\ cache_directory = <<>>
    /\ run = IdleRun
    /\ env_ops = 0
    /\ AppInit

\* SearchIndexer.add_file_to_index: the file is indexed when it is
\* supported, is not an excel file and exists
AddsToIndex(files, p) ==
    /\ IsSupportedFile(p)
    /\ GetFileType(p) # "excel"
    /\ files[p].exists

\* add_file_to_index(p) between two runs
CallAddFileToIndex(p) ==
    /\ run.pc = "idle"
    /\ IF AddsToIndex(fs, p)
       THEN /\ index' = AddFileIndex(index, p, fs[p].content)
            /\ file_info' = AddFileInfo(file_info, p, fs[p].content,
                                        FileInfoOf(p, fs[p].content), clock)
            /\ indexed_paths' = indexed_paths \cup {p}
       ELSE UNCHANGED <<index, file_info, indexed_paths>>
    /\ last' = [NoLast EXCEPT !.op = "add_file_to_index", !.path = p]
    /\ result' = NoResult
    /\ run' = Forget(run)
    /\ UNCHANGED <<clock, concVars, appVars, platform, fs, cache, stop_indexing,
                   cache_directory, env_ops>>

\* update_file_in_index(p) between two runs: remove_file_from_index when the
\* path is in indexed_paths, then add_file_to_index
CallUpdateFileInIndex(p) ==
    /\ run.pc = "idle"
    /\ LET known == p \in indexed_paths
           idx1 == IF known THEN RemoveFileIndex(index, p) ELSE index
           info1 == IF known THEN RemoveFileInfo(file_info, p) ELSE file_info
           ip1 == IF known THEN indexed_paths \ {p} ELSE indexed_paths
       IN  IF AddsToIndex(fs, p)
           THEN /\ index' = AddFileIndex(idx1, p, fs[p].content)
                /\ file_info' = AddFileInfo(info1, p, fs[p].content,
                                            FileInfoOf(p, fs[p].content), clock)
                /\ indexed_paths' = ip1 \cup {p}
           ELSE /\ index' = idx1
                /\ file_info' = info1
                /\ indexed_paths' = ip1
    /\ last' = [NoLast EXCEPT !.op = "update_file_in_index", !.path = p]
    /\ result' = NoResult
    /\ run' = Forget(run)
    /\ UNCHANGED <<clock, concVars, appVars, platform, fs, cache, stop_indexing,
                   cache_directory, env_ops>>

ExcelNext ==
    \/ \E recursive \in BOOLEAN : RunStart(recursive)
    \/ \E p \in ExcelPaths : TaskIndexes(p)
    \/ \E p \in ExcelPaths : CollectResult(p)
    \/ RunFinish
    \/ \E p \in ExcelPaths, c \in RunContents : FileWritten(p, c)
    \/ \E p \in ExcelPaths : CallAddFileToIndex(p)
    \/ \E p \in ExcelPaths : CallUpdateFileInIndex(p)

SpecExcel == ExcelInit /\ [][ExcelNext]_vars

\* the excel files of the model
ExcelFiles == {p \in ExcelPaths : GetFileType(p) = "excel"}

\* C20: starting from an empty index and no cache, after any sequence of
\* index_directory, add_file_to_index and update_file_in_index calls, no
\* excel file is dispatched for extraction, is present in the in-memory
\* index, or is written to the cache
C20_NoExcelIndexed ==
    \A p \in ExcelFiles :
        /\ p \notin DOMAIN run.tasks
        /\ p \notin DOMAIN file_info
        /\ \A t \in DOMAIN index : p \notin index[t]
        /\ p \notin indexed_paths
        /\ \A k \in DOMAIN cache.files : cache.files[k].full_path # p

\* add_file_to_index was called on a spreadsheet that is in the directory,
\* after a run over the directory has written the cache
C20_Witness ==
    /\ last.op = "add_file_to_index"
    /\ last.path \in ExcelFiles
    /\ fs[last.path].exists
    /\ cache.exists
    /\ index # <<>>

\* a run over the directory with the spreadsheet in it has returned
C20_WitnessRun ==
    /\ Done
    /\ \E p \in ExcelFiles : fs[p].exists /\ fs[p].mtime > 0
    /\ run.tasks # <<>>
    /\ run.saved

(***************************************************************************)
(* The cache write of a run and the searches of the UI thread (SpecSave)   *)
(*                                                                         *)
(* index_directory runs on the IndexingWorker thread; save_index_to_cache  *)
(* opens the cache file for writing, which empties it, and json.dump then  *)
(* writes it piece by piece.  perform_search runs on the UI thread and     *)
(* takes no notice of a run in progress.                                   *)
(***************************************************************************)

\* max_results of the searches perform_search makes, and its floor on the
\* length of the query
UiMaxResults == 100
MinQueryLen == 2
UiQueries == {QueryMd, QueryAb, QueryA}

\* the cache file between open(cache_file_path, 'w') and the end of
\* json.dump: a prefix of a JSON document, which json.load rejects
PartlyWritten(c) == [c EXCEPT !.exists = TRUE, !.readable = FALSE]

\* the end of the loop of index_directory when the save condition holds:
\* save_index_to_cache opens the cache file for writing
SaveOpens ==
    /\ run.pc = "pool"
    /\ LoopEnded(run)
    /\ PoolSettled(run.tasks)
    /\ SaveCondition(run.indexed_count, run.cache_loaded)
    /\ cache' = PartlyWritten(cache)
    /\ run' = [run EXCEPT !.pc = "saving"]
    /\ UNCHANGED <<indexVars, histVars, clock, concVars, appVars, platform, fs, indexed_paths,
                   stop_indexing, cache_directory, env_ops>>

\* json.dump has written the whole document and index_directory returns
SaveCompletes ==
    /\ run.pc = "saving"
    /\ cache' = SaveIndexToCache(indexed_paths, file_info, fs, cache_directory, clock)
    /\ run' = [run EXCEPT !.pc = "idle", !.ret = "returned", !.saved = TRUE]
    /\ UNCHANGED <<indexVars, histVars, clock, concVars, appVars, platform, fs, indexed_paths,
                   stop_indexing, cache_directory, env_ops>>

\* index_directory returns without a save
ReturnsUnsaved ==
    /\ run.pc = "pool"
    /\ LoopEnded(run)
    /\ PoolSettled(run.tasks)
    /\ ~SaveCondition(run.indexed_count, run.cache_loaded)
    /\ run' = [run EXCEPT !.pc = "idle", !.ret = "returned", !.saved = FALSE]
    /\ UNCHANGED <<indexVars, histVars, clock, concVars, appVars, platform, fs, cache,
                   indexed_paths, stop_indexing, cache_directory, env_ops>>

\* what a search that opened the cache file found there
CacheRead(r, c) ==
    IF ~c.exists THEN "search_no_cache"
    ELSE IF r.pc = "saving" THEN "search_read_partial_cache"
    ELSE "search_read_cache"

\* perform_search in content mode: search_files(query, max_results=100) once
\* something is indexed
PerformSearchContent(q) ==
    /\ Len(q) >= MinQueryLen
    /\ indexed_paths # {}
    /\ \E list \in SearchFiles(cache_directory, cache, fs, index, file_info, q, UiMaxResults) :
          result' = [valid |-> TRUE, query |-> q, max_results |-> UiMaxResults,
                     list |-> list]
    /\ last' = [NoLast EXCEPT !.op = IF cache_directory = <<>> THEN "search_no_cache"
                                     ELSE CacheRead(run, cache)]
    /\ UNCHANGED <<indexVars, clock, concVars, appVars, runVars>>

\* perform_search in file name mode: search_files_by_filename_from_json
PerformSearchFilename(q) ==
    /\ Len(q) >= MinQueryLen
    /\ \E list \in (IF cache_directory = <<>> THEN {<<>>}
                    ELSE SearchFilesByFilenameFromJson(cache, fs, q, UiMaxResults)) :
          result' = [valid |-> TRUE, query |-> q, max_results |-> UiMaxResults,
                     list |-> list]
    /\ last' = [NoLast EXCEPT !.op = IF cache_directory = <<>> THEN "search_no_cache"
                                     ELSE CacheRead(run, cache)]
    /\ UNCHANGED <<indexVars, clock, concVars, appVars, runVars>>

SaveNext ==
    \/ RunStart(TRUE)
    \/ \E p \in RunPaths : TaskIndexes(p)
    \/ \E p \in RunPaths : CollectResult(p)
    \/ SaveOpens
    \/ SaveCompletes
    \/ ReturnsUnsaved
    \/ StopIndexingProcess
    \/ \E p \in RunPaths, c \in RunContents : FileWritten(p, c)
    \/ \E q \in UiQueries : PerformSearchContent(q)
    \/ \E q \in UiQueries : PerformSearchFilename(q)

SpecSave == RunInit /\ [][SaveNext]_vars

\* C22: while an indexing run is writing the cache file no other thread
\* reads it: a search of the UI thread during a run never reads a partly
\* written cache
C22_NoReadOfPartlyWrittenCache == last.op # "search_read_partial_cache"

(***************************************************************************)
(* SearchWidget: the index button and the IndexingWorker (SpecWidget)      *)
(***************************************************************************)

\* QThread.isRunning of a worker: from start() until run() has returned
IsRunningNever(phase) == FALSE
IsRunning(phase) == phase \in {"indexing", "emitted"}

\* SearchWidget.set_directory(d), called when the user selects a folder
SetDirectory(d) ==
    /\ widget' = [widget EXCEPT !.current_directory = d, !.index_button = TRUE]
    /\ UNCHANGED <<indexVars, histVars, clock, concVars, runVars, auth>>

\* SearchWidget.start_indexing: nothing without an existing directory,
\* nothing while the worker of the widget is running, else the button is
\* disabled and a new IndexingWorker is started
StartIndexing ==
    /\ Len(widget.workers) < MaxWorkers
    /\ widget' =
         IF widget.current_directory \notin ExistingDirs THEN widget
         ELSE IF /\ widget.indexing_worker # 0
                 /\ IsRunning(widget.workers[widget.indexing_worker])
              THEN [widget EXCEPT !.ignored = @ \/ widget.index_button]
              ELSE [widget EXCEPT !.index_button = FALSE,
                                  !.workers = Append(@, "indexing"),
                                  !.indexing_worker = Len(widget.workers) + 1]
    /\ UNCHANGED <<indexVars, histVars, clock, concVars, runVars, auth>>

\* IndexingWorker.run: index_directory returns and indexing_finished is
\* emitted, to be delivered on the UI thread
WorkerEmitsFinished(i) ==
    /\ i \in 1..Len(widget.workers)
    /\ widget.workers[i] = "indexing"
    /\ widget' = [widget EXCEPT !.workers[i] = "emitted", !.signals = @ + 1]
    /\ UNCHANGED <<indexVars, histVars, clock, concVars, runVars, auth>>

\* IndexingWorker.run returns
WorkerExits(i) ==
    /\ i \in 1..Len(widget.workers)
    /\ widget.workers[i] = "emitted"
    /\ widget' = [widget EXCEPT !.workers[i] = "finished"]
    /\ UNCHANGED <<indexVars, histVars, clock, concVars, runVars, auth>>

\* SearchWidget.on_indexing_finished on the UI thread
OnIndexingFinished ==
    /\ widget.signals > 0
    /\ widget' = [widget EXCEPT !.signals = @ - 1, !.index_button = TRUE]
    /\ UNCHANGED <<indexVars, histVars, clock, concVars, runVars, auth>>

WidgetNext ==
    \/ \E d \in ExistingDirs \cup {DirGone} : SetDirectory(d)
    \/ StartIndexing
    \/ \E i \in 1..MaxWorkers : WorkerEmitsFinished(i)
    \/ \E i \in 1..MaxWorkers : WorkerExits(i)
    \/ OnIndexingFinished

SpecWidget == IndexInit /\ [][WidgetNext]_vars

\* the workers that are inside index_directory
WorkersIndexing == {i \in 1..Len(widget.workers) : widget.workers[i] = "indexing"}

\* C23: under any sequence of set_directory, start_indexing and
\* indexing-finished events at most one IndexingWorker is running
\* index_directory, even though set_directory enables the index button while
\* a run is in progress
C23_OneWorkerIndexing == Cardinality(WorkersIndexing) <= 1

\* start_indexing was called with the button enabled during a run and
\* started nothing; a later worker is indexing now
C23_Witness ==
    /\ widget.ignored
    /\ widget.index_button
    /\ Len(widget.workers) >= 2
    /\ WorkersIndexing # {}

(***************************************************************************)
(* indexed_paths and the index under other threads (SpecPaths)             *)
(*                                                                         *)
(* _index_single_file calls index.add_file, which takes the lock of the    *)
(* index, and then indexed_paths.add, which takes none; clear_index and    *)
(* remove_file_from_index run on the UI thread.                            *)
(***************************************************************************)

\* _index_single_file(p), first statement: index.add_file
TaskAddsFile(p) ==
    /\ run.pc = "pool"
    /\ p \in DOMAIN run.tasks
    /\ run.tasks[p].status = "pending"
    /\ p \notin run.adding
    /\ fs[p].exists
    /\ index' = AddFileIndex(index, p, fs[p].content)
    /\ file_info' = AddFileInfo(file_info, p, fs[p].content,
                                FileInfoOf(p, fs[p].content), clock)
    /\ run' = [run EXCEPT !.adding = @ \cup {p}]
    /\ UNCHANGED <<histVars, clock, concVars, appVars, platform, fs, cache,
                   indexed_paths, stop_indexing, cache_directory, env_ops>>

\* _index_single_file(p), second statement: indexed_paths.add, and return True
TaskAddsPath(p) ==
    /\ run.pc = "pool"
    /\ p \in run.adding
    /\ indexed_paths' = indexed_paths \cup {p}
    /\ run' = [run EXCEPT !.adding = @ \ {p},
                          !.tasks[p] = [status |-> "ok", content |-> fs[p].content]]
    /\ UNCHANGED <<indexVars, histVars, clock, concVars, appVars, platform, fs, cache,
                   stop_indexing, cache_directory, env_ops>>

\* SearchIndexer.clear_index, from the UI thread
ClearIndex ==
    /\ env_ops < MaxEnvOps
    /\ index' = <<>>
    /\ file_info' = <<>>
    /\ indexed_paths' = {}
    /\ env_ops' = env_ops + 1
    /\ run' = Forget(run)
    /\ last' = [NoLast EXCEPT !.op = "clear_index"]
    /\ result' = NoResult
    /\ UNCHANGED <<clock, concVars, appVars, platform, fs, cache, stop_indexing,
                   cache_directory>>

\* SearchIndexer.remove_file_from_index(p), from the UI thread
RemoveFileFromIndex(p) ==
    /\ env_ops < MaxEnvOps
    /\ index' = RemoveFileIndex(index, p)
    /\ file_info' = RemoveFileInfo(file_info, p)
    /\ indexed_paths' = indexed_paths \ {p}
    /\ env_ops' = env_ops + 1
    /\ run' = Forget(run)
    /\ last' = [NoLast EXCEPT !.op = "remove_file_from_index", !.path = p]
    /\ result' = NoResult
    /\ UNCHANGED <<clock, concVars, appVars, platform, fs, cache, stop_indexing,
                   cache_directory>>

PathsNext ==
    \/ \E recursive \in BOOLEAN : RunStart(recursive)
    \/ \E p \in RunPaths : TaskAddsFile(p)
    \/ \E p \in RunPaths : TaskAddsPath(p)
    \/ \E p \in RunPaths : CollectResult(p)
    \/ RunFinish
    \/ ClearIndex
    \/ \E p \in RunPaths : RemoveFileFromIndex(p)

SpecPaths == RunInit /\ [][PathsNext]_vars

\* C24: in every reachable state, worker threads indexing and clear_index or
\* remove_file_from_index called during a run included, indexed_paths is the
\* set of paths that have a file entry in the index, and the total_files
\* written to the cache is the number of entries of its files map
C24_IndexedPathsAreEntries ==
    /\ indexed_paths = DOMAIN file_info
    /\ cache.exists => cache.total_files = Cardinality(DOMAIN cache.files)

\* the same at the end of a run only
C24_AtRest ==
    Done => C24_IndexedPathsAreEntries

(***************************************************************************)
(* Searches after an eviction (SpecEvict)                                  *)
(***************************************************************************)

EvictNext ==
    \/ \E recursive \in BOOLEAN : RunStart(recursive)
    \/ \E p \in RunPaths : TaskIndexes(p)
    \/ \E p \in RunPaths : CollectResult(p)
    \/ RunFinish
    \/ ClearIndex
    \/ \E p \in RunPaths : RemoveFileFromIndex(p)
    \/ \E q \in RunQueries : CallSearchFiles(q, RunMaxResults)

SpecEvict == RunInit /\ [][EvictNext]_vars

\* C25: search_files never returns a path that is absent from the in-memory
\* index: after remove_file_from_index(p) or clear_index, p is not returned
\* until it is indexed again
C25_SearchFilesReturnsIndexedOnly ==
    (result.valid /\ last.op = "search") =>
        ResultFiles(result.list) \subseteq DOMAIN file_info

(***************************************************************************)
(* One SearchIndexer, two directories (SpecTwoDirs)                        *)
(*                                                                         *)
(* The user indexes D, selects E and indexes E with the same indexer.      *)
(* From the second call on, `cache` is the cache file of E.                *)
(***************************************************************************)

\* a file of the directory E
PathE == <<"E", "/", "b", "a", ".", "m", "d">>
TwoDirsPaths == RunPaths \cup {PathE}

\* a new SearchIndexer, the directories D and E with their files, no cache
TwoDirsInit ==
    /\ index = <<>>
    /\ file_info = <<>>
    /\ last = NoLast
    /\ result = NoResult
    /\ clock = 0
    /\ ConcInit
    /\ platform \in {"posix", "nt"}
    /\ fs = [p \in TwoDirsPaths |->
                [exists |-> TRUE, mtime |-> 0,
                 content |-> IF p = PathA THEN TextSa ELSE TextAb]]
    /\ cache = NoCache
    /\ indexed_paths = {}
    /\ stop_indexing = FALSE
    /\ cache_directory = <<>>
    /\ run = IdleRun
    /\ env_ops = 0
    /\ AppInit

\* the first call: index_directory(D, recursive)
RunStartFirst(recursive) ==
    /\ cache_directory = <<>>
    /\ RunStart(recursive)

\* index_directory(E, recursive) after D was indexed: set_cache_directory(E);
\* E holds no cache file, so load_index_from_cache returns False and leaves
\* the index as it is; the scan of E gives the tasks
RunStartOther(recursive) ==
    /\ run.pc = "idle"
    /\ cache_directory = DirD
    /\ clock < MaxRuns
    /\ clock' = clock + 1
    /\ cache_directory' = DirE
    /\ cache' = NoCache
    /\ LET todo == ScanDirectory(fs, DirE, recursive)
       IN  run' = IF todo = {}
                  THEN [IdleRun EXCEPT !.recursive = recursive, !.ret = "returned"]
                  ELSE [IdleRun EXCEPT !.recursive = recursive, !.pc = "pool",
                                       !.tasks = [p \in todo |-> PendingTask]]
    /\ last' = NoLast
    /\ result' = NoResult
    /\ UNCHANGED <<indexVars, concVars, appVars, platform, fs, indexed_paths,
                   stop_indexing, env_ops>>

TwoDirsNext ==
    \/ \E recursive \in BOOLEAN : RunStartFirst(recursive)
    \/ \E recursive \in BOOLEAN : RunStartOther(recursive)
    \/ \E p \in TwoDirsPaths : TaskIndexes(p)
    \/ \E p \in TwoDirsPaths : TaskRaises(p)
    \/ \E p \in TwoDirsPaths : CollectResult(p)
    \/ RunFinish

SpecTwoDirs == TwoDirsInit /\ [][TwoDirsNext]_vars

\* C27: after one SearchIndexer has indexed D and then E, the cache file
\* written inside E holds entries only for files under E, and every key of
\* its files map is a path that stays inside E
C27_CacheHoldsOwnDirectoryOnly ==
    (cache_directory = DirE /\ cache.exists) =>
        \A k \in DOMAIN cache.files :
            /\ StartsWith(cache.files[k].full_path, DirE \o <<"/">>)
            /\ ~StartsWith(k, <<".", ".">>)

(***************************************************************************)
(* AuthenticationManager (SpecAuth)                                        *)
(*                                                                         *)
(* The calls of src/core/auth.py in any order, with the days passing and   *)
(* an administrator changing expiry dates.                                 *)
(***************************************************************************)

\* the days of the model's calendar
MaxDay == 3
Days == 0 .. MaxDay

\* what a caller may type
Usernames == AdminAccounts \cup DeployableAccounts \cup {"nobody", ""}
Passwords == {PasswordOf[u] : u \in AdminAccounts \cup DeployableAccounts} \cup {""}

\* _verify_password: bcrypt.checkpw of the password against the account's hash
VerifyPassword(password, username) == password = PasswordOf[username]

\* config.is_account_expired
IsAccountExpiredNever(username, expiration, now) == FALSE
IsAccountExpired(username, expiration, now) ==
    IF username \in AdminAccounts THEN FALSE
    ELSE IF username \notin DOMAIN expiration THEN TRUE
    ELSE now > expiration[username]

\* the session fields of the manager
SessionOf(a) ==
    [current_user |-> a.current_user, is_admin |-> a.is_admin,
     login_time |-> a.login_time]

\* _set_user_session
SetUserSession(a, username, is_admin) ==
    [a EXCEPT !.current_user = username, !.is_admin = is_admin,
              !.login_time = <<a.now>>]

\* logout()
LoggedOut(a) ==
    [a EXCEPT !.current_user = NoUser, !.is_admin = FALSE, !.login_time = <<>>]

\* has_admin_permission()
HasAdminPermission(a) == a.is_admin /\ a.current_user # NoUser

\* authenticate(username, password): the manager after the call and the
\* success flag of the result
Authenticated(a, username, password) ==
    IF username = "" \/ password = "" THEN [auth |-> a, ok |-> FALSE]
    ELSE IF username \in AdminAccounts
    THEN IF VerifyPassword(password, username)
         THEN [auth |-> SetUserSession(a, username, TRUE), ok |-> TRUE]
         ELSE [auth |-> a, ok |-> FALSE]
    ELSE IF username \in DeployableAccounts
    THEN IF VerifyPassword(password, username)
         THEN IF IsAccountExpired(username, a.expiration, a.now)
              THEN [auth |-> a, ok |-> FALSE]
              ELSE [auth |-> SetUserSession(a, username, FALSE), ok |-> TRUE]
         ELSE [auth |-> a, ok |-> FALSE]
    ELSE [auth |-> a, ok |-> FALSE]

Authenticate(username, password) ==
    /\ LET r == Authenticated(auth, username, password)
       IN  auth' = [r.auth EXCEPT !.call = [op |-> "authenticate",
                                            username |-> username, ok |-> r.ok,
                                            pre |-> SessionOf(auth)]]
    /\ UNCHANGED <<indexVars, histVars, clock, concVars, runVars, widget>>

Logout ==
    /\ auth' = [LoggedOut(auth) EXCEPT !.call = [op |-> "logout",
                                                  username |-> auth.current_user,
                                                  ok |-> TRUE,
                                                  pre |-> SessionOf(auth)]]
    /\ UNCHANGED <<indexVars, histVars, clock, concVars, runVars, widget>>

\* check_session_validity(): the manager after the call and the validity
SessionChecked(a) ==
    IF a.current_user = NoUser THEN [auth |-> a, ok |-> FALSE]
    ELSE IF a.is_admin THEN [auth |-> a, ok |-> TRUE]
    ELSE IF IsAccountExpired(a.current_user, a.expiration, a.now)
    THEN [auth |-> LoggedOut(a), ok |-> FALSE]
    ELSE [auth |-> a, ok |-> TRUE]

CheckSessionValidity ==
    /\ LET r == SessionChecked(auth)
       IN  auth' = [r.auth EXCEPT !.call = [op |-> "check_session_validity",
                                            username |-> auth.current_user,
                                            ok |-> r.ok,
                                            pre |-> SessionOf(auth)]]
    /\ UNCHANGED <<indexVars, histVars, clock, concVars, runVars, widget>>

\* update_user_expiration(username, new_expiration)
UpdateUserExpiration(username, new_expiration) ==
    /\ LET ok == HasAdminPermission(auth) /\ username \in DeployableAccounts
       IN  auth' = [auth EXCEPT
                       !.expiration = IF ok
                                      THEN [@ EXCEPT ![username] = new_expiration]
                                      ELSE @,
                       !.call = [op |-> "update_user_expiration",
                                 username |-> username, ok |-> ok,
                                 pre |-> SessionOf(auth)]]
    /\ UNCHANGED <<indexVars, histVars, clock, concVars, runVars, widget>>

\* a day passes between two calls
DayPasses ==
    /\ auth.now < MaxDay
    /\ auth' = [auth EXCEPT !.now = @ + 1, !.call = NoCall]
    /\ UNCHANGED <<indexVars, histVars, clock, concVars, runVars, widget>>

AuthNext ==
    \/ \E username \in Usernames, password \in Passwords :
          Authenticate(username, password)
    \/ Logout
    \/ CheckSessionValidity
    \/ \E username \in Usernames, new_expiration \in Days :
          UpdateUserExpiration(username, new_expiration)
    \/ DayPasses

SpecAuth == IndexInit /\ [][AuthNext]_vars

\* C30: authenticate never establishes a session for a non-admin account
\* whose expiry date has passed; a non-admin session whose account has
\* expired does not survive check_session_validity; an admin session is not
\* ended by expiry (neither by the passing of days nor by
\* check_session_validity); a failed authenticate leaves the session as it
\* was
C30_SessionsRespectExpiry ==
    /\ (auth.call.op = "authenticate" /\ auth.call.ok
          /\ auth.call.username \notin AdminAccounts) =>
          /\ auth.current_user = auth.call.username
          /\ auth.now <= auth.expiration[auth.call.username]
    /\ (auth.call.op = "check_session_validity"
          /\ auth.call.pre.current_user # NoUser /\ ~auth.call.pre.is_admin
          /\ auth.now > auth.expiration[auth.call.pre.current_user]) =>
          auth.current_user = NoUser /\ ~auth.call.ok
    /\ (auth.call.op = "check_session_validity" /\ auth.call.pre.is_admin) =>
          SessionOf(auth) = auth.call.pre /\ auth.call.ok
    /\ (auth.call.op = "none" /\ auth.is_admin) => auth.current_user \in AdminAccounts
    /\ (auth.call.op = "authenticate" /\ ~auth.call.ok) =>
          SessionOf(auth) = auth.call.pre

\* a non-admin session outlived its expiry date and check_session_validity
\* ended it
C30_Witness ==
    /\ auth.call.op = "check_session_validity"
    /\ auth.call.pre.current_user \in DeployableAccounts
    /\ auth.now > auth.expiration[auth.call.pre.current_user]
    /\ auth.current_user = NoUser

\* with an administrator logged in, an expired account is refused although
\* its password is right
C30_WitnessRefused ==
    /\ auth.call.op = "authenticate"
    /\ ~auth.call.ok
    /\ auth.call.username \in DeployableAccounts
    /\ auth.now > auth.expiration[auth.call.username]
    /\ auth.is_admin

====
